---- MODULE Spec2Model ----
(***************************************************************************)
(* Baton: per-session task queue (TaskQueueEngine), session manager with   *)
(* pending interactions (SessionManager) and the prompt path of the        *)
(* command dispatcher, modelled on the JavaScript event loop: every        *)
(* handler runs to its next await, continuations of settled promises run   *)
(* in FIFO order from the microtask queue, and I/O completions and timers  *)
(* are macrotasks that run only when the microtask queue is empty.         *)
(***************************************************************************)
EXTENDS Integers, Sequences, FiniteSets, TLC

\* ---------------------------------------------------------------- bounds
MaxCalls == 3
MaxStops == 1
MaxReqs == 1
MaxPrompts == 2
MaxAsks == 1
MaxSels == 2
MaxGets == 2
MaxResets == 2

\* ------------------------------------------------------------- constants
Sessions == {1, 2}
NoSession == 0
NoTask == 0
NoLock == 0
NoReq == 0
NaN == -1

VARIABLES
  registry,            \* sessions registered in the module-level sessions map
  acpClient,           \* session.acpClient: "none" | "ready" | "stopped"
  onTaskComplete,      \* TaskQueueEngine.onTaskComplete is set
  pending,             \* session.queue.pending (task ids)
  current,             \* session.queue.current (task id or NoTask)
  isProcessing,        \* session.isProcessing
  sessionLocks,        \* sessionLocks map: session -> lock (id of creating call)
  lockWaiters,         \* reactions registered on each lock promise, in order
  calls,               \* enqueue / handlePrompt invocations, by call id
  tasks,               \* processTask activations, by task id (= call id)
  microtasks,          \* FIFO queue of promise continuations
  completions,         \* results delivered to onTaskComplete, per session
  started,             \* tasks in the order processTask was entered, per session
  advanced,            \* processNext runs triggered by each task
  stops,               \* stopTask invocations awaiting cancelCurrentTask
  pendingInteractions, \* session.pendingInteractions keys in insertion order
  reqs,                \* interactions ever created, by request id
  fired,               \* continuation invocations per request id
  timers,              \* request ids with an armed timeout
  modeCalls,           \* selection triggers and setMode / setModel calls
  currentModeId,       \* session.currentModeId
  currentModelId,      \* session.currentModelId
  events,              \* 'permissionRequest' events emitted, in order
  manager,             \* SessionManager: keys, project path, calls in flight
  reply                \* value returned by the API call made in the last step

vars == << registry, acpClient, onTaskComplete, pending, current, isProcessing,
           sessionLocks, lockWaiters, calls, tasks, microtasks, completions,
           started, advanced, stops, pendingInteractions, reqs, fired, timers,
           modeCalls, currentModeId, currentModelId, events, manager,
           reply >>

CallIds == 1..MaxCalls
StopIds == 1..MaxStops
ReqIds == 1..MaxReqs

\* ids of selection triggers and direct mode / model commands; a selection
\* created by trigger k is the interaction with request id k
SelIds == (MaxReqs + 1)..(MaxReqs + MaxSels)

InteractionIds == ReqIds \cup SelIds

\* calls of getOrCreateSession and of resetSession / resetAllSessions
GetIds == 1..MaxGets
ResetIds == 1..MaxResets

\* ------------------------------------------------------------- options
\* option lists an agent permission request may carry
OptionLists ==
  { << [optionId |-> "allow", name |-> "Allow"],
       [optionId |-> "deny", name |-> "Deny"] >>,
    << [optionId |-> "yes", name |-> "Proceed"],
       [optionId |-> "no", name |-> "Abort"] >>,
    << >> }

\* user inputs to resolveInteraction
Inputs == {"allow", "deny", "0", "1", "5", "bogus", "cancel"}

\* the inputs tried against a live session: an option id, an index, garbage
SelectInputs == {"allow", "1", "bogus"}

\* purely numeric messages: a valid index and one out of range
Digits == {"0", "5"}

\* option lists with mixed-case labels, several matching labels, ids that are
\* decimal numbers, and an option whose id is the empty string
AgentOptionLists ==
  OptionLists \cup
  { << [optionId |-> "once", name |-> "Allow once"],
       [optionId |-> "always", name |-> "Allow always"],
       [optionId |-> "reject", name |-> "DENY"] >>,
    << [optionId |-> "ok", name |-> "OK"],
       [optionId |-> "stop", name |-> "Cancel run"],
       [optionId |-> "never", name |-> "Deny"] >>,
    << [optionId |-> "go", name |-> "Go"],
       [optionId |-> "", name |-> "Cancel"] >>,
    << [optionId |-> "1", name |-> "Yes"],
       [optionId |-> "2", name |-> "No"] >> }

\* getModeState().availableModes / getModelState().availableModels of an
\* agent that supports switching, as option lists (optionId: m.id)
AvailableModes ==
  << [optionId |-> "code", name |-> "Code"],
     [optionId |-> "ask", name |-> "Ask"] >>

AvailableModels ==
  << [optionId |-> "fast", name |-> "Fast"],
     [optionId |-> "smart", name |-> "Smart"] >>

\* the options of the permission request of the end-to-end tests
PermissionOptions ==
  << [optionId |-> "allow", name |-> "Allow"],
     [optionId |-> "deny", name |-> "Deny"] >>

\* inputs to resolveInteraction tried against those lists
AgentInputs == {"allow", "reject", "1", "5", "1abc", "bogus"}

\* ---------------------------------------------------------------- strings
CharAt(str, i) == SubSeq(str, i, i)

Rest(str) == SubSeq(str, 2, Len(str))

\* String.prototype.toLowerCase
RECURSIVE ToLowerCase(_)
ToLowerCase(str) ==
  LET upper == "ABCDEFGHIJKLMNOPQRSTUVWXYZ"
      lower == "abcdefghijklmnopqrstuvwxyz"
      ch == CharAt(str, 1)
      low == IF \E k \in 1..Len(upper) : CharAt(upper, k) = ch
             THEN CharAt(lower, CHOOSE k \in 1..Len(upper) : CharAt(upper, k) = ch)
             ELSE ch
  IN IF str = "" THEN "" ELSE low \o ToLowerCase(Rest(str))

\* String.prototype.includes
Includes(str, pat) ==
  \E i \in 1..(Len(str) - Len(pat) + 1) : SubSeq(str, i, i + Len(pat) - 1) = pat

IsDigit(ch) == \E d \in 1..10 : CharAt("0123456789", d) = ch

\* parseInt(optionIdOrIndex, 10): leading blanks and a sign are skipped, the
\* longest prefix of digits is read and the rest ignored; NaN without a digit
\* (NaN and a negative result fail the same range check of the caller)
ParseInt(str) ==
  LET RECURSIVE TrimStart(_), LeadingDigits(_), DecimalValue(_)
      TrimStart(x) ==
        IF x # "" /\ CharAt(x, 1) = " " THEN TrimStart(Rest(x)) ELSE x
      LeadingDigits(x) ==
        IF x = "" \/ ~IsDigit(CharAt(x, 1)) THEN ""
        ELSE CharAt(x, 1) \o LeadingDigits(Rest(x))
      DigitValue(ch) == (CHOOSE d \in 1..10 : CharAt("0123456789", d) = ch) - 1
      DecimalValue(ds) ==
        IF ds = "" THEN 0
        ELSE 10 * DecimalValue(SubSeq(ds, 1, Len(ds) - 1))
             + DigitValue(CharAt(ds, Len(ds)))
      t == TrimStart(str)
      signed == t # "" /\ CharAt(t, 1) \in {"+", "-"}
      ds == LeadingDigits(IF signed THEN Rest(t) ELSE t)
  IN IF ds = "" THEN NaN
     ELSE IF signed /\ CharAt(t, 1) = "-" THEN 0 - DecimalValue(ds)
          ELSE DecimalValue(ds)

\* /^\d+$/.test(trimmed)
IsNumeric(str) == str # "" /\ \A i \in 1..Len(str) : IsDigit(CharAt(str, i))

\* user ids, context ids (<< >>: no contextId) and project paths
Users == <<"u", "u:c">>
ContextIds == {<< >>, <<"c">>}
ProjectPaths == <<"/repo", "c:/repo">>

\* SessionManager.buildSessionKey with this.projectPath as its third input
BuildSessionKey(userId, contextId, projectPath) ==
  IF contextId # << >> /\ contextId[1] # ""
  THEN userId \o ":" \o contextId[1] \o ":" \o projectPath
  ELSE userId \o ":" \o projectPath

\* faulty variant: the label is compared without toLowerCase()
NameMatchesDeny_CaseSensitive(name) ==
  Includes(name, "deny") \/ Includes(name, "cancel")

\* o.name.toLowerCase().includes('deny') || o.name.toLowerCase().includes('cancel')
NameMatchesDeny(name) ==
  Includes(ToLowerCase(name), "deny") \/ Includes(ToLowerCase(name), "cancel")

OptionIds(options) == { options[i].optionId : i \in 1..Len(options) }

\* ------------------------------------------------------------ event loop
\* the payload of a 'permissionRequest' event, as far as it identifies
Event(s, r) == [sessionId |-> s, requestId |-> r]

\* a promise continuation waiting in the microtask queue
Job(kind, id, ok, phase) == [kind |-> kind, id |-> id, ok |-> ok, phase |-> phase]

HeadIs(kind) == microtasks # << >> /\ Head(microtasks).kind = kind

\* I/O completions, timers and handlers of incoming messages run as macrotasks,
\* when no continuation is waiting
Idle == microtasks = << >>

\* the mutable state a handler touches, threaded through its statements
Bundle ==
  [ tasks |-> tasks, mt |-> microtasks, completions |-> completions,
    started |-> started, pending |-> pending, current |-> current,
    isProcessing |-> isProcessing, advanced |-> advanced,
    pi |-> pendingInteractions, fired |-> fired, reqs |-> reqs,
    sessionLocks |-> sessionLocks, lockWaiters |-> lockWaiters,
    calls |-> calls, modeCalls |-> modeCalls,
    currentModeId |-> currentModeId, currentModelId |-> currentModelId,
    events |-> events, manager |-> manager ]

Commit(q) ==
  /\ tasks' = q.tasks
  /\ microtasks' = q.mt
  /\ completions' = q.completions
  /\ started' = q.started
  /\ pending' = q.pending
  /\ current' = q.current
  /\ isProcessing' = q.isProcessing
  /\ advanced' = q.advanced
  /\ pendingInteractions' = q.pi
  /\ fired' = q.fired
  /\ reqs' = q.reqs
  /\ sessionLocks' = q.sessionLocks
  /\ lockWaiters' = q.lockWaiters
  /\ calls' = q.calls
  /\ modeCalls' = q.modeCalls
  /\ currentModeId' = q.currentModeId
  /\ currentModelId' = q.currentModelId
  /\ events' = q.events
  /\ manager' = q.manager

\* behaviour of one onTaskComplete invocation: settles at once or after I/O,
\* fulfils or rejects
CallbackChoices == [fast : BOOLEAN, cbok : BOOLEAN]

\* ------------------------------------------------------ TaskQueueEngine
\* faulty variant: only successful results are reported
InvokeCallback_OnlySuccess(q, s, t, success, phase, ch) ==
  LET result == [task |-> t, success |-> success, answers |-> q.tasks[t].answers]
      delivered == IF success THEN [q EXCEPT !.completions[s] = Append(@, result)]
                   ELSE q
  IN IF ch.fast
     THEN [delivered EXCEPT !.tasks[t].st = "cbq",
                            !.mt = Append(@, Job("cbdone", t, ch.cbok, phase))]
     ELSE [delivered EXCEPT !.tasks[t].st = "cb",
                            !.tasks[t].phase = phase,
                            !.tasks[t].cbok = ch.cbok]

\* await this.onTaskComplete(session, response)
InvokeCallback(q, s, t, success, phase, ch) ==
  LET result == [task |-> t, success |-> success,
                 answers |-> IF success THEN q.tasks[t].answers ELSE << >>]
      delivered == [q EXCEPT !.completions[s] = Append(@, result)]
  IN IF ch.fast
     THEN [delivered EXCEPT !.tasks[t].st = "cbq",
                            !.mt = Append(@, Job("cbdone", t, ch.cbok, phase))]
     ELSE [delivered EXCEPT !.tasks[t].st = "cb",
                            !.tasks[t].phase = phase,
                            !.tasks[t].cbok = ch.cbok]

\* task.type === 'prompt' ? sendPrompt : sendCommand
Method(type) == IF type = "prompt" THEN "sendPrompt" ELSE "sendCommand"

\* processTask up to its first await; a stopped handle rejects the call at once
ProcessTask(q, s, t, ch) ==
  LET q1 == [q EXCEPT !.started[s] = Append(@, t),
                      !.tasks[t].outcome = IF acpClient[s] = "ready" THEN ""
                                           ELSE IF acpClient[s] = "none"
                                           THEN "nohandle" ELSE "err"]
  IN IF acpClient[s] = "none"
     THEN IF onTaskComplete
          THEN InvokeCallback(q1, s, t, FALSE, "nohandle", ch)
          ELSE [q1 EXCEPT !.tasks[t].st = "done"]
     ELSE IF acpClient[s] = "stopped"
          THEN [q1 EXCEPT !.tasks[t].st = "sentq",
                          !.tasks[t].type = "",
                          !.mt = Append(@, Job("sent", t, FALSE, Method(q.tasks[t].type)))]
          ELSE [q1 EXCEPT !.tasks[t].st = "sending",
                          !.tasks[t].type = "",
                          !.tasks[t].method = Method(q.tasks[t].type)]

\* faulty variant: a task whose send failed goes back to the end of pending
ProcessNext_Retry(q, s, t, ch) ==
  LET q1 == [q EXCEPT !.advanced[t] = @ + 1, !.tasks[t].st = "done",
                      !.pending[s] = IF q.tasks[t].outcome = "err"
                                     THEN Append(@, t) ELSE @]
      nextTask == Head(q1.pending[s])
  IN IF Len(q1.pending[s]) > 0
     THEN ProcessTask([q1 EXCEPT !.pending[s] = Tail(@), !.current[s] = nextTask],
                      s, nextTask, ch)
     ELSE [q1 EXCEPT !.current[s] = NoTask, !.isProcessing[s] = FALSE]

\* processNext, called from the finally block of processTask for task t
ProcessNext(q, s, t, ch) ==
  LET q1 == [q EXCEPT !.advanced[t] = @ + 1, !.tasks[t].st = "done"]
  IN IF Len(q1.pending[s]) > 0
     THEN LET nextTask == Head(q1.pending[s])
              q2 == [q1 EXCEPT !.pending[s] = Tail(@), !.current[s] = nextTask]
          IN ProcessTask(q2, s, nextTask, ch)
     ELSE [q1 EXCEPT !.current[s] = NoTask, !.isProcessing[s] = FALSE]

\* sessionLocks.set(session.id, newLock); return release
TakeLock(q, s, c) ==
  [q EXCEPT !.sessionLocks[s] = c,
            !.calls[c].pc = "crit",
            !.mt = Append(@, Job("crit", c, TRUE, ""))]

\* acquireLock up to its await
AcquireLock(q, s, c) ==
  LET existingLock == q.sessionLocks[s]
  IN IF existingLock # NoLock
     THEN IF q.calls[existingLock].pc = "done"
          THEN [q EXCEPT !.calls[c].pc = "waitLock",
                         !.mt = Append(@, Job("acq", c, TRUE, ""))]
          ELSE [q EXCEPT !.calls[c].pc = "waitLock",
                         !.lockWaiters[existingLock] = Append(@, c)]
     ELSE TakeLock(q, s, c)

\* faulty variant: the test looks at the pending list instead of the running task
ShouldExecuteImmediately_PendingOnly(q, s) == Len(q.pending[s]) = 0

\* session.isProcessing / session.queue.current test of enqueue
ShouldExecuteImmediately(q, s) == ~q.isProcessing[s] /\ q.current[s] = NoTask

\* faulty variant: only the first waiter of a lock is resumed
WaiterJobs_FirstOnly(waiters) ==
  IF waiters = << >> THEN << >> ELSE << Job("acq", waiters[1], TRUE, "") >>

\* reactions of a resolved lock promise, queued in registration order
WaiterJobs(waiters) ==
  [i \in 1..Len(waiters) |-> Job("acq", waiters[i], TRUE, "")]

\* number of enqueue calls of session s that have passed the gate
Admitted(q, s) ==
  Cardinality({d \in CallIds : q.calls[d].session = s /\ q.calls[d].pc = "done"})

\* faulty variant: the position is taken before the push
Critical_ZeroBased(q, s, c, ch) ==
  LET imm == ShouldExecuteImmediately(q, s)
      task == [q EXCEPT !.tasks[c].type = q.calls[c].type, !.calls[c].type = ""]
      q1 == IF imm
            THEN ProcessTask([task EXCEPT !.current[s] = c, !.isProcessing[s] = TRUE],
                             s, c, ch)
            ELSE [task EXCEPT !.pending[s] = Append(@, c)]
      position == Len(q.pending[s])
  IN [q1 EXCEPT !.sessionLocks[s] = NoLock,
                !.mt = @ \o WaiterJobs(q1.lockWaiters[c]),
                !.lockWaiters[c] = << >>,
                !.calls[c].pc = "done",
                !.calls[c].ack = position,
                !.calls[c].ackTask = IF imm THEN NoTask ELSE c,
                !.calls[c].adm = Admitted(q, s) + 1,
                !.calls[c].quiet = \A t \in CallIds : q.advanced[t] = 0]

\* the try/finally of enqueue after the lock is held; the acknowledgement is
\* kept as its position (0: empty message, no data) and its data.taskId
Critical(q, s, c, ch) ==
  LET imm == ShouldExecuteImmediately(q, s)
      task == [q EXCEPT !.tasks[c].type = q.calls[c].type, !.calls[c].type = ""]
      q1 == IF imm
            THEN ProcessTask([task EXCEPT !.current[s] = c, !.isProcessing[s] = TRUE],
                             s, c, ch)
            ELSE [task EXCEPT !.pending[s] = Append(@, c)]
      position == IF imm THEN 0 ELSE Len(q1.pending[s])
  IN [q1 EXCEPT !.sessionLocks[s] = NoLock,
                !.mt = @ \o WaiterJobs(q1.lockWaiters[c]),
                !.lockWaiters[c] = << >>,
                !.calls[c].pc = "done",
                !.calls[c].ack = position,
                !.calls[c].ackTask = IF imm THEN NoTask ELSE c,
                !.calls[c].adm = Admitted(q, s) + 1,
                !.calls[c].quiet = \A t \in CallIds : q.advanced[t] = 0]

\* --------------------------------------------------- pending interactions
Remove(seq, x) == SelectSeq(seq, LAMBDA y : y # x)

InSeq(x, seq) == \E i \in 1..Len(seq) : seq[i] = x

MinOf(S) == CHOOSE x \in S : \A y \in S : x <= y

\* fallbackOption of the permission timeout
FallbackOption(options) ==
  LET found == {i \in 1..Len(options) : NameMatchesDeny(options[i].name)}
      byName == IF found = {} THEN "" ELSE options[MinOf(found)].optionId
      firstId == IF Len(options) > 0 THEN options[1].optionId ELSE ""
  IN IF byName # "" THEN byName ELSE IF firstId # "" THEN firstId ELSE "deny"

\* faulty variant: the option ids are tried before the index
Resolution_IdFirst(q, s, r, input) ==
  IF s \notin registry
  THEN [kind |-> "SessionNotFound", final |-> ""]
  ELSE IF ~InSeq(r, q.pi[s])
  THEN [kind |-> "NotFound", final |-> ""]
  ELSE LET options == q.reqs[r].options
           index == ParseInt(input)
       IN IF input \in OptionIds(options)
          THEN [kind |-> "Ok", final |-> input]
          ELSE IF index # NaN /\ index >= 0 /\ index < Len(options)
               THEN [kind |-> "Ok", final |-> options[index + 1].optionId]
               ELSE [kind |-> "InvalidOption", final |-> ""]

\* outcome of the lookups and the option check of resolveInteraction
Resolution(q, s, r, input) ==
  IF s \notin registry
  THEN [kind |-> "SessionNotFound", final |-> ""]
  ELSE IF ~InSeq(r, q.pi[s])
  THEN [kind |-> "NotFound", final |-> ""]
  ELSE LET options == q.reqs[r].options
           index == ParseInt(input)
       IN IF index # NaN /\ index >= 0 /\ index < Len(options)
          THEN [kind |-> "Ok", final |-> options[index + 1].optionId]
          ELSE IF input \in OptionIds(options)
               THEN [kind |-> "Ok", final |-> input]
               ELSE [kind |-> "InvalidOption", final |-> ""]

\* faulty variant: the continuation is invoked but the entry is never deleted
Settle_KeepEntry(q, s, r, value, by) ==
  LET t == q.reqs[r].task
      q1 == [q EXCEPT !.fired[r] = @ + 1,
                      !.reqs[r].by = by,
                      !.reqs[r].value = value]
  IN IF q.fired[r] = 0
     THEN [q1 EXCEPT !.tasks[t].st = "sending",
                     !.tasks[t].answers = Append(@, value)]
     ELSE q1

\* pending.resolve(value); session.pendingInteractions.delete(requestId)
\* (the deleted entry's option list is dropped with it). The continuation of
\* a permission request resumes the blocked send; that of a mode or model
\* selection calls setMode / setModel if the session has an agent handle and
\* otherwise returns without settling the trigger; that of a repository
\* selection starts the switch, which is not followed further here.
Settle(q, s, r, value, by) ==
  LET t == q.reqs[r].task
      type == q.reqs[r].type
      q1 == [q EXCEPT !.fired[r] = @ + 1,
                      !.reqs[r].by = by,
                      !.reqs[r].value = value,
                      !.reqs[r].options = << >>,
                      !.pi[s] = Remove(@, r)]
  IN IF q.fired[r] # 0 THEN q1
     ELSE IF type = "permission"
     THEN [q1 EXCEPT !.tasks[t].st = "sending",
                     !.tasks[t].answers = Append(@, value)]
     ELSE IF type = "repo_selection"
     THEN [q1 EXCEPT !.modeCalls[r].pc = "switching",
                     !.modeCalls[r].target = value]
     ELSE IF acpClient[s] # "none"
     THEN [q1 EXCEPT !.modeCalls[r].pc = "setting",
                     !.modeCalls[r].target = value]
     ELSE [q1 EXCEPT !.modeCalls[r].pc = "stuck"]

\* resolveInteraction(sessionId, requestId, optionIdOrIndex)
ResolveInteraction(q, s, r, input) ==
  LET res == Resolution(q, s, r, input)
  IN IF res.kind = "Ok" THEN Settle(q, s, r, res.final, "explicit") ELSE q

ResolveReply(q, s, r, input) ==
  LET res == Resolution(q, s, r, input)
  IN [op |-> "resolve", kind |-> res.kind, req |-> r, input |-> input,
      final |-> res.final, pre |-> q.fired[r] > 0,
      invoked |-> ResolveInteraction(q, s, r, input).fired[r] # q.fired[r]]

NoReply == [op |-> "none", kind |-> "", req |-> NoReq, input |-> "",
            final |-> "", pre |-> FALSE, invoked |-> FALSE]

StopReply(kind) == [NoReply EXCEPT !.op = "stop", !.kind = kind]

\* for (const [requestId] of session.pendingPermissions) resolve(..., 'cancel')
RECURSIVE CancelAll(_, _, _)
CancelAll(q, s, rs) ==
  IF rs = << >> THEN q
  ELSE CancelAll(ResolveInteraction(q, s, Head(rs), "cancel"), s, Tail(rs))

\* ------------------------------------------------------------ initial state
UnusedCall == [session |-> NoSession, type |-> "", via |-> "", pc |-> "unused",
               ack |-> -1, ackTask |-> NoTask, adm |-> 0, conc |-> FALSE, quiet |-> FALSE,
               over |-> NoReq, content |-> ""]
NewTask == [st |-> "new", type |-> "", method |-> "", outcome |-> "",
            phase |-> "", cbok |-> TRUE, answers |-> << >>]
UnusedStop == [session |-> NoSession, mode |-> "", caller |-> 0, pc |-> "unused"]
UnusedReq == [session |-> NoSession, task |-> NoTask, type |-> "",
              options |-> << >>, by |-> "none", value |-> ""]
UnusedGet == [userId |-> "", contextId |-> << >>, projectPath |-> "",
              session |-> NoSession, created |-> FALSE, starts |-> FALSE,
              pc |-> "unused"]
UnusedReset == [kind |-> "", key |-> "", found |-> NoSession, cursor |-> 0,
                pc |-> "unused"]

\* the SessionManager of a fresh process (sessionKey[s] = "": no session
\* object with id s was created yet)
NoSessions ==
  [sessionKey |-> [s \in Sessions |-> ""], projectPath |-> ProjectPaths[1],
   gets |-> [g \in GetIds |-> UnusedGet],
   resets |-> [k \in ResetIds |-> UnusedReset], ops |-> << >>]

UnusedModeCall == [session |-> NoSession, kind |-> "", via |-> "",
                   pc |-> "unused", target |-> "", overlap |-> FALSE]

\* nothing queued, nothing running, nothing asked
Quiescent ==
  /\ pending = [s \in Sessions |-> << >>]
  /\ current = [s \in Sessions |-> NoTask]
  /\ isProcessing = [s \in Sessions |-> FALSE]
  /\ sessionLocks = [s \in Sessions |-> NoLock]
  /\ lockWaiters = [c \in CallIds |-> << >>]
  /\ calls = [c \in CallIds |-> UnusedCall]
  /\ tasks = [c \in CallIds |-> NewTask]
  /\ microtasks = << >>
  /\ completions = [s \in Sessions |-> << >>]
  /\ started = [s \in Sessions |-> << >>]
  /\ advanced = [c \in CallIds |-> 0]
  /\ stops = [k \in StopIds |-> UnusedStop]
  /\ pendingInteractions = [s \in Sessions |-> << >>]
  /\ reqs = [r \in InteractionIds |-> UnusedReq]
  /\ fired = [r \in InteractionIds |-> 0]
  /\ timers = {}
  /\ modeCalls = [k \in SelIds |-> UnusedModeCall]
  /\ currentModeId = [s \in Sessions |-> AvailableModes[1].optionId]
  /\ currentModelId = [s \in Sessions |-> AvailableModels[1].optionId]
  /\ events = << >>
  /\ reply = NoReply

\* both sessions were created by earlier messages
Init ==
  /\ registry = Sessions
  /\ acpClient \in [Sessions -> {"none", "ready"}]
  /\ onTaskComplete \in BOOLEAN
  /\ manager = [NoSessions EXCEPT
                  !.sessionKey = [s \in Sessions |->
                                   BuildSessionKey(Users[s], << >>,
                                                   ProjectPaths[1])]]
  /\ Quiescent

\* a process that has just started: the sessions map is empty
InitManager ==
  /\ registry = {}
  /\ acpClient = [s \in Sessions |-> "none"]
  /\ onTaskComplete = FALSE
  /\ manager = NoSessions
  /\ Quiescent

NextCall == Cardinality({c \in CallIds : calls[c].pc # "unused"}) + 1
NextStop == Cardinality({k \in StopIds : stops[k].pc # "unused"}) + 1
NextReq == Cardinality({r \in ReqIds : reqs[r].session # NoSession}) + 1
NextSel == MaxReqs + Cardinality({k \in SelIds : modeCalls[k].pc # "unused"}) + 1

Popped == [Bundle EXCEPT !.mt = Tail(@)]

\* no critical section of session s has run yet
NoCritYet(s) == \A c \in CallIds : calls[c].session = s => calls[c].pc # "done"

NewCall(s, type, via) ==
  [UnusedCall EXCEPT !.session = s, !.type = type, !.via = via,
                     !.pc = "new", !.conc = NoCritYet(s)]

\* ------------------------------------------------------- enqueue (queue.ts)
\* queueEngine.enqueue(session, content, type) up to the await of the lock
EnqueueStart(s, type, limit) ==
  /\ NextCall <= limit
  /\ LET c == NextCall
         q == [Bundle EXCEPT !.calls[c] = NewCall(s, type, "enqueue")]
     IN Commit(AcquireLock(q, s, c))
  /\ UNCHANGED << registry, acpClient, onTaskComplete, stops, timers >>
  /\ reply' = NoReply

\* acquireLock after `await existingLock`
AcqJob ==
  /\ HeadIs("acq")
  /\ LET c == Head(microtasks).id
     IN Commit(TakeLock(Popped, calls[c].session, c))
  /\ UNCHANGED << registry, acpClient, onTaskComplete, stops, timers >>
  /\ reply' = NoReply

\* enqueue after `await acquireLock()`
CritJob ==
  /\ HeadIs("crit")
  /\ LET c == Head(microtasks).id
     IN \E ch \in CallbackChoices : Commit(Critical(Popped, calls[c].session, c, ch))
  /\ UNCHANGED << registry, acpClient, onTaskComplete, stops, timers >>
  /\ reply' = NoReply

\* ----------------------------------------------------- processTask (queue.ts)
\* the Agent Handle settles the sendPrompt / sendCommand promise of task t
AgentReturn(t, ok) ==
  /\ Idle
  /\ tasks[t].st = "sending"
  /\ tasks' = [tasks EXCEPT ![t].st = "sentq", ![t].method = "",
                            ![t].outcome = IF ok THEN "ok" ELSE "err"]
  /\ microtasks' = Append(microtasks, Job("sent", t, ok, tasks[t].method))
  /\ UNCHANGED << registry, acpClient, onTaskComplete, pending, current,
                  isProcessing, sessionLocks, lockWaiters, calls, completions,
                  started, advanced, stops, pendingInteractions, reqs, fired,
                  timers, modeCalls, currentModeId, currentModelId, events,
                  manager >>
  /\ reply' = NoReply

\* processTask after `await sendPrompt(...)`: try body or catch block
SentJob ==
  /\ HeadIs("sent")
  /\ LET t == Head(microtasks).id
         ok == Head(microtasks).ok
         s == calls[t].session
     IN \E ch \in CallbackChoices :
          Commit(IF onTaskComplete
                 THEN InvokeCallback(Popped, s, t, ok,
                                     IF ok THEN "try" ELSE "catch", ch)
                 ELSE ProcessNext(Popped, s, t, ch))
  /\ UNCHANGED << registry, acpClient, onTaskComplete, stops, timers >>
  /\ reply' = NoReply

\* the promise returned by onTaskComplete settles after I/O
CallbackReturn(t) ==
  /\ Idle
  /\ tasks[t].st = "cb"
  /\ tasks' = [tasks EXCEPT ![t].st = "cbq", ![t].phase = "", ![t].cbok = TRUE]
  /\ microtasks' = Append(microtasks,
                          Job("cbdone", t, tasks[t].cbok, tasks[t].phase))
  /\ UNCHANGED << registry, acpClient, onTaskComplete, pending, current,
                  isProcessing, sessionLocks, lockWaiters, calls, completions,
                  started, advanced, stops, pendingInteractions, reqs, fired,
                  timers, modeCalls, currentModeId, currentModelId, events,
                  manager >>
  /\ reply' = NoReply

\* processTask after `await this.onTaskComplete(...)`
CbDoneJob ==
  /\ HeadIs("cbdone")
  /\ LET t == Head(microtasks).id
         ok == Head(microtasks).ok
         phase == Head(microtasks).phase
         s == calls[t].session
     IN \E ch \in CallbackChoices :
          Commit(IF phase = "nohandle"
                 THEN [Popped EXCEPT !.tasks[t].st = "done"]
                 ELSE IF phase = "try" /\ ~ok
                 THEN InvokeCallback(Popped, s, t, FALSE, "catch", ch)
                 ELSE ProcessNext(Popped, s, t, ch))
  /\ UNCHANGED << registry, acpClient, onTaskComplete, stops, timers >>
  /\ reply' = NoReply

\* ------------------------------------------------------ stopTask (session.ts)
QueueUnchanged ==
  UNCHANGED << tasks, completions, started, advanced, sessionLocks, lockWaiters,
               calls, pendingInteractions, reqs, fired, modeCalls,
               currentModeId, currentModelId, events, manager >>

\* stopTask('all' | undefined) reaching `await cancelCurrentTask()`
StopTaskCancel(s, mode) ==
  /\ Idle
  /\ NextStop <= MaxStops
  /\ s \in registry
  /\ current[s] # NoTask /\ acpClient[s] # "none"
  /\ LET k == NextStop
         fast == acpClient[s] = "stopped"
     IN /\ stops' = [stops EXCEPT ![k] =
                       [session |-> s, mode |-> mode, caller |-> 0,
                        pc |-> IF fast THEN "queued" ELSE "cancelling"]]
        /\ microtasks' = IF fast
                         THEN Append(microtasks, Job("stopresume", k, TRUE, ""))
                         ELSE microtasks
  /\ QueueUnchanged
  /\ UNCHANGED << registry, acpClient, onTaskComplete, pending, current,
                  isProcessing, timers >>
  /\ reply' = NoReply

\* connection.cancel() completes
CancelReturn(k) ==
  /\ Idle
  /\ stops[k].pc = "cancelling"
  /\ stops' = [stops EXCEPT ![k].pc = "queued"]
  /\ microtasks' = Append(microtasks, Job("stopresume", k, TRUE, ""))
  /\ QueueUnchanged
  /\ UNCHANGED << registry, acpClient, onTaskComplete, pending, current,
                  isProcessing, timers >>
  /\ reply' = NoReply

\* faulty variant: the stop clears current but leaves the session processing
StopResumeJob_StillProcessing ==
  /\ HeadIs("stopresume")
  /\ LET k == Head(microtasks).id
         s == stops[k].session
     IN /\ stops' = [stops EXCEPT ![k].pc = "done"]
        /\ pending' = IF stops[k].mode = "all"
                      THEN [pending EXCEPT ![s] = << >>] ELSE pending
        /\ current' = [current EXCEPT ![s] = NoTask]
        /\ microtasks' = Tail(microtasks)
        /\ reply' = StopReply(IF stops[k].mode = "all" THEN "AllStopped"
                              ELSE "Stopped")
  /\ QueueUnchanged
  /\ UNCHANGED << registry, acpClient, onTaskComplete, isProcessing, timers >>

\* faulty variant: the stop clears the queue of every session
StopResumeJob_Everyone ==
  /\ HeadIs("stopresume")
  /\ LET k == Head(microtasks).id
     IN /\ stops' = [stops EXCEPT ![k].pc = "done"]
        /\ pending' = [x \in Sessions |-> << >>]
        /\ current' = [x \in Sessions |-> NoTask]
        /\ isProcessing' = [x \in Sessions |-> FALSE]
        /\ microtasks' = Tail(microtasks)
        /\ reply' = StopReply("AllStopped")
  /\ QueueUnchanged
  /\ UNCHANGED << registry, acpClient, onTaskComplete, timers >>

\* stopTask after `await cancelCurrentTask()`
StopResumeJob ==
  /\ HeadIs("stopresume")
  /\ LET k == Head(microtasks).id
         s == stops[k].session
         caller == stops[k].caller
     IN /\ stops' = [stops EXCEPT ![k].pc = "done"]
        /\ pending' = IF stops[k].mode = "all"
                      THEN [pending EXCEPT ![s] = << >>] ELSE pending
        /\ current' = [current EXCEPT ![s] = NoTask]
        /\ isProcessing' = [isProcessing EXCEPT ![s] = FALSE]
        /\ microtasks' = IF caller # 0
                         THEN Append(Tail(microtasks), Job("hpresume", caller, TRUE, ""))
                         ELSE Tail(microtasks)
        /\ reply' = IF caller # 0 THEN NoReply
                    ELSE StopReply(IF stops[k].mode = "all" THEN "AllStopped"
                                   ELSE "Stopped")
  /\ QueueUnchanged
  /\ UNCHANGED << registry, acpClient, onTaskComplete, timers >>

\* stopTask('all' | undefined) with no current task or no handle
StopTaskIdle(s, mode) ==
  /\ Idle
  /\ s \in registry
  /\ ~(current[s] # NoTask /\ acpClient[s] # "none")
  /\ IF mode = "all"
     THEN /\ pending' = [pending EXCEPT ![s] = << >>]
          /\ current' = [current EXCEPT ![s] = NoTask]
          /\ isProcessing' = [isProcessing EXCEPT ![s] = FALSE]
          /\ reply' = StopReply("AllStopped")
     ELSE /\ UNCHANGED << pending, current, isProcessing >>
          /\ reply' = StopReply("NoRunningTask")
  /\ QueueUnchanged
  /\ UNCHANGED << registry, acpClient, onTaskComplete, microtasks, stops, timers >>

\* faulty variant: the task at the head of pending is removed, whatever its id
StopTaskId_Head(s, taskId) ==
  /\ Idle
  /\ s \in registry
  /\ IF InSeq(taskId, pending[s])
     THEN /\ pending' = [pending EXCEPT ![s] = Tail(@)]
          /\ reply' = StopReply("Removed")
     ELSE /\ UNCHANGED pending
          /\ reply' = StopReply("NotInQueue")
  /\ QueueUnchanged
  /\ UNCHANGED << registry, acpClient, onTaskComplete, current, isProcessing,
                  microtasks, stops, timers >>

\* stopTask(taskId): remove one pending task
StopTaskId(s, taskId) ==
  /\ Idle
  /\ s \in registry
  /\ IF InSeq(taskId, pending[s])
     THEN /\ pending' = [pending EXCEPT ![s] = Remove(@, taskId)]
          /\ reply' = StopReply("Removed")
     ELSE /\ UNCHANGED pending
          /\ reply' = StopReply("NotInQueue")
  /\ QueueUnchanged
  /\ UNCHANGED << registry, acpClient, onTaskComplete, current, isProcessing,
                  microtasks, stops, timers >>

\* stopTask for a user/context without a session
StopTaskNoSession(s) ==
  /\ Idle
  /\ s \notin registry
  /\ reply' = StopReply("NoSession")
  /\ QueueUnchanged
  /\ UNCHANGED << registry, acpClient, onTaskComplete, pending, current,
                  isProcessing, microtasks, stops, timers >>

\* -------------------------------------------------- resetSession (session.ts)
\* resetSession up to `await session.acpClient.stop()`, or to its end when the
\* session has no handle (a reset of an already stopped handle repeats stop()
\* to no effect and is left out)
ResetSession(s) ==
  /\ Idle
  /\ s \in registry
  /\ acpClient[s] # "stopped"
  /\ IF acpClient[s] = "none"
     THEN /\ registry' = registry \ {s}
          /\ UNCHANGED << acpClient, microtasks >>
     ELSE /\ acpClient' = [acpClient EXCEPT ![s] = "stopped"]
          /\ microtasks' = Append(microtasks, Job("resetdone", s, TRUE, ""))
          /\ UNCHANGED registry
  /\ QueueUnchanged
  /\ UNCHANGED << onTaskComplete, pending, current, isProcessing, stops,
                  timers >>
  /\ reply' = NoReply

\* resetSession after the await: sessions.delete(sessionKey)
ResetDoneJob ==
  /\ HeadIs("resetdone")
  /\ registry' = registry \ {Head(microtasks).id}
  /\ microtasks' = Tail(microtasks)
  /\ QueueUnchanged
  /\ UNCHANGED << acpClient, onTaskComplete, pending, current, isProcessing,
                  stops, timers >>
  /\ reply' = NoReply

\* --------------------------------------- session lifecycle (session.ts)
\* the sessions map: the registered session objects, each under the key it
\* was inserted with
Live(key) == {s \in registry : manager.sessionKey[s] = key}

\* sessions.get(sessionKey)
Lookup(key) == IF Live(key) = {} THEN NoSession ELSE CHOOSE s \in Live(key) : TRUE

NextSession == Cardinality({s \in Sessions : manager.sessionKey[s] # ""}) + 1
NextGet == Cardinality({g \in GetIds : manager.gets[g].pc # "unused"}) + 1
NextReset == Cardinality({k \in ResetIds : manager.resets[k].pc # "unused"}) + 1

\* a call made on an Agent Handle
Op(name, s) == [op |-> name, session |-> s]

ResetReply(kind) == [NoReply EXCEPT !.op = "reset", !.kind = kind]

\* what the session lifecycle leaves alone
LifecycleFrame ==
  UNCHANGED << onTaskComplete, pending, current, isProcessing, sessionLocks,
               lockWaiters, calls, tasks, completions, started, advanced,
               stops, pendingInteractions, reqs, fired, timers, modeCalls,
               currentModeId, currentModelId, events >>

\* getOrCreateSession up to `await acpClient.startAgent()`, or to its return
\* when the session already has a handle
GetOrCreateSession(userId, contextId) ==
  /\ Idle
  /\ NextGet <= MaxGets
  /\ LET g == NextGet
         key == BuildSessionKey(userId, contextId, manager.projectPath)
         found == Lookup(key)
         s == IF found = NoSession THEN NextSession ELSE found
     IN /\ s \in Sessions
        /\ registry' = registry \cup {s}
        /\ LET starts == acpClient[s] = "none"
           IN manager' =
                [manager EXCEPT
                   !.sessionKey[s] = key,
                   !.gets[g] = [userId |-> userId, contextId |-> contextId,
                                projectPath |-> manager.projectPath,
                                session |-> s,
                                created |-> found = NoSession,
                                starts |-> starts,
                                pc |-> IF starts THEN "starting"
                                                 ELSE "returned"],
                   !.ops = IF starts THEN Append(@, Op("start", s)) ELSE @]
  /\ UNCHANGED << acpClient, microtasks >>
  /\ LifecycleFrame
  /\ reply' = NoReply

\* startAgent() settles: on success the handle is stored in the session and
\* the session is returned, on failure the error leaves getOrCreateSession
StartAgentReturn(g, ok) ==
  /\ Idle
  /\ manager.gets[g].pc = "starting"
  /\ acpClient' = IF ok THEN [acpClient EXCEPT ![manager.gets[g].session] = "ready"]
                        ELSE acpClient
  /\ manager' = [manager EXCEPT !.gets[g].pc = IF ok THEN "returned" ELSE "thrown"]
  /\ UNCHANGED << registry, microtasks >>
  /\ LifecycleFrame
  /\ reply' = NoReply

\* setCurrentRepo
SetCurrentRepo(path) ==
  /\ Idle
  /\ manager.projectPath # path
  /\ manager' = [manager EXCEPT !.projectPath = path]
  /\ UNCHANGED << registry, acpClient, microtasks >>
  /\ LifecycleFrame
  /\ reply' = NoReply

\* faulty variant: resetSession of an unknown session is an error
ResetSessionKey_Strict(userId, contextId, ok) ==
  /\ Idle
  /\ NextReset <= MaxResets
  /\ LET k == NextReset
         key == BuildSessionKey(userId, contextId, manager.projectPath)
         found == Lookup(key)
         call == [kind |-> "one", key |-> key, found |-> found, cursor |-> 0,
                  pc |-> "stopping"]
     IN IF found # NoSession /\ acpClient[found] # "none"
        THEN /\ acpClient' = IF ok THEN [acpClient EXCEPT ![found] = "stopped"]
                                   ELSE acpClient
             /\ manager' = [manager EXCEPT
                              !.resets[k] = call,
                              !.ops = Append(@, Op("stop", found))]
             /\ microtasks' = Append(microtasks, Job("reset", k, ok, ""))
             /\ reply' = NoReply
             /\ UNCHANGED registry
        ELSE /\ registry' = registry \ Live(key)
             /\ manager' = [manager EXCEPT
                              !.resets[k] =
                                [call EXCEPT !.pc = IF found = NoSession
                                                    THEN "thrown" ELSE "done"]]
             /\ reply' = ResetReply(IF found = NoSession THEN "Thrown" ELSE "Ok")
             /\ UNCHANGED << acpClient, microtasks >>
  /\ LifecycleFrame

\* resetSession(userId, contextId) up to `await session.acpClient.stop()`
\* (ok: stop() fulfils), or to its return when there is no handle to stop
ResetSessionKey(userId, contextId, ok) ==
  /\ Idle
  /\ NextReset <= MaxResets
  /\ LET k == NextReset
         key == BuildSessionKey(userId, contextId, manager.projectPath)
         found == Lookup(key)
         call == [kind |-> "one", key |-> key, found |-> found, cursor |-> 0,
                  pc |-> "stopping"]
     IN IF found # NoSession /\ acpClient[found] # "none"
        THEN /\ acpClient' = IF ok THEN [acpClient EXCEPT ![found] = "stopped"]
                                   ELSE acpClient
             /\ manager' = [manager EXCEPT
                              !.resets[k] = call,
                              !.ops = Append(@, Op("stop", found))]
             /\ microtasks' = Append(microtasks, Job("reset", k, ok, ""))
             /\ reply' = NoReply
             /\ UNCHANGED registry
        ELSE /\ registry' = registry \ Live(key)
             /\ manager' = [manager EXCEPT
                              !.resets[k] = [call EXCEPT !.pc = "done"]]
             /\ reply' = ResetReply("Ok")
             /\ UNCHANGED << acpClient, microtasks >>
  /\ LifecycleFrame

\* resetSession after the await: sessions.delete(sessionKey) and the reply,
\* or the error of stop() on its way to the caller
ResetKeyJob ==
  /\ HeadIs("reset")
  /\ LET k == Head(microtasks).id
     IN IF Head(microtasks).ok
        THEN /\ registry' = registry \ Live(manager.resets[k].key)
             /\ manager' = [manager EXCEPT !.resets[k].pc = "done"]
             /\ reply' = ResetReply("Ok")
        ELSE /\ manager' = [manager EXCEPT !.resets[k].pc = "thrown"]
             /\ reply' = ResetReply("Thrown")
             /\ UNCHANGED registry
  /\ microtasks' = Tail(microtasks)
  /\ UNCHANGED acpClient
  /\ LifecycleFrame

\* the sessions the loop of resetAllSessions has still to stop: the Map is
\* iterated in insertion order, which is the order of the session ids
StillToStop(after) == {s \in registry : s > after /\ acpClient[s] # "none"}

\* resetAllSessions from the entry after `after` up to the next
\* `await session.acpClient.stop()` or, when no handle is left, through
\* sessions.clear() to its return
ResetAllFrom(k, after, ok) ==
  IF StillToStop(after) = {}
  THEN /\ registry' = {}
       /\ manager' = [manager EXCEPT
                        !.resets[k] = [UnusedReset EXCEPT !.kind = "all",
                                                          !.pc = "done"]]
       /\ UNCHANGED acpClient
       /\ reply' = ResetReply("Ok")
  ELSE LET s == MinOf(StillToStop(after))
       IN /\ acpClient' = IF ok THEN [acpClient EXCEPT ![s] = "stopped"]
                                ELSE acpClient
          /\ manager' = [manager EXCEPT
                           !.resets[k] = [UnusedReset EXCEPT !.kind = "all",
                                                             !.cursor = s,
                                                             !.pc = "stopping"],
                           !.ops = Append(@, Op("stop", s))]
          /\ reply' = NoReply
          /\ UNCHANGED registry

ResetAllSessions(ok) ==
  /\ Idle
  /\ NextReset <= MaxResets
  /\ ResetAllFrom(NextReset, 0, ok)
  /\ microtasks' = IF StillToStop(0) = {} THEN microtasks
                   ELSE Append(microtasks, Job("resetall", NextReset, ok, ""))
  /\ LifecycleFrame

\* resetAllSessions after an await of its loop: the next entry, or the error
\* of stop() on its way to the caller
ResetAllJob(ok) ==
  /\ HeadIs("resetall")
  /\ LET k == Head(microtasks).id
         after == manager.resets[k].cursor
     IN IF Head(microtasks).ok
        THEN /\ ResetAllFrom(k, after, ok)
             /\ microtasks' =
                  IF StillToStop(after) = {} THEN Tail(microtasks)
                  ELSE Append(Tail(microtasks), Job("resetall", k, ok, ""))
        ELSE /\ ~ok
             /\ manager' = [manager EXCEPT !.resets[k].pc = "thrown"]
             /\ reply' = ResetReply("Thrown")
             /\ microtasks' = Tail(microtasks)
             /\ UNCHANGED << registry, acpClient >>
  /\ LifecycleFrame

\* ------------------------------------------- permission handler (session.ts)
\* faulty variant: the request is stored but its timeout is never armed
RequestPermission_NoTimer(t, options) ==
  /\ Idle
  /\ NextReq <= MaxReqs
  /\ tasks[t].st = "sending"
  /\ LET r == NextReq
         s == calls[t].session
     IN /\ reqs' = [reqs EXCEPT ![r] = [session |-> s, task |-> t,
                                        type |-> "permission",
                                        options |-> options, by |-> "none",
                                        value |-> ""]]
        /\ events' = Append(events, Event(s, r))
        /\ pendingInteractions' = [pendingInteractions EXCEPT ![s] = Append(@, r)]
        /\ tasks' = [tasks EXCEPT ![t].st = "blocked"]
  /\ UNCHANGED << registry, acpClient, onTaskComplete, pending, current,
                  isProcessing, sessionLocks, lockWaiters, calls, microtasks,
                  completions, started, advanced, stops, fired, timers,
                  modeCalls, currentModeId, currentModelId, manager >>
  /\ reply' = NoReply

\* the agent asks for permission during sendPrompt of task t
RequestPermission(t, options) ==
  /\ Idle
  /\ NextReq <= MaxReqs
  /\ tasks[t].st = "sending"
  /\ LET r == NextReq
         s == calls[t].session
     IN /\ reqs' = [reqs EXCEPT ![r] = [session |-> s, task |-> t,
                                        type |-> "permission",
                                        options |-> options, by |-> "none",
                                        value |-> ""]]
        /\ events' = Append(events, Event(s, r))
        /\ pendingInteractions' = [pendingInteractions EXCEPT ![s] = Append(@, r)]
        /\ timers' = timers \cup {r}
        /\ tasks' = [tasks EXCEPT ![t].st = "blocked"]
  /\ UNCHANGED << registry, acpClient, onTaskComplete, pending, current,
                  isProcessing, sessionLocks, lockWaiters, calls, microtasks,
                  completions, started, advanced, stops, fired, modeCalls,
                  currentModeId, currentModelId, manager >>
  /\ reply' = NoReply

\* faulty variant: the timeout resolves without looking the request up
TimerFire_Unchecked(r) ==
  /\ Idle
  /\ r \in timers
  /\ timers' = timers \ {r}
  /\ Commit(Settle(Bundle, reqs[r].session, r, FallbackOption(reqs[r].options),
                   "timeout"))
  /\ UNCHANGED << registry, acpClient, onTaskComplete, stops >>
  /\ reply' = NoReply

\* the setTimeout callback of the permission handler
TimerFire(r) ==
  /\ Idle
  /\ r \in timers
  /\ timers' = timers \ {r}
  /\ LET s == reqs[r].session
     IN Commit(IF InSeq(r, pendingInteractions[s])
               THEN Settle(Bundle, s, r, FallbackOption(reqs[r].options), "timeout")
               ELSE Bundle)
  /\ UNCHANGED << registry, acpClient, onTaskComplete, stops >>
  /\ reply' = NoReply

\* the end of a resolveInteraction call: the continuation of a repo selection
\* runs on from `pending.resolve(finalOptionId)`. With the repository found
\* it stops the handle of every registered session in turn, clears the
\* sessions map and sets the new project path; the first stop() that fails
\* (failed) ends it there. The awaits on the way only wait for promises that
\* are already settled, so nothing else runs in between.
CommitResolved(q) ==
  LET switching == {k \in SelIds : q.modeCalls[k].pc = "switching"}
      toStop == {x \in registry : acpClient[x] # "none"}
  IN IF switching = {}
     THEN Commit(q) /\ UNCHANGED << registry, acpClient >>
     ELSE LET k == CHOOSE k \in switching : TRUE
              path == IF q.modeCalls[k].target = "1" THEN ProjectPaths[2]
                                                     ELSE ProjectPaths[1]
          IN \/ /\ Commit([q EXCEPT !.modeCalls[k].pc = "repo_missing"])
                /\ UNCHANGED << registry, acpClient >>
             \/ \E failed \in toStop \cup {NoSession} :
                  LET all == failed = NoSession
                      called == {x \in toStop : all \/ x <= failed}
                      nth(i) == CHOOSE x \in called :
                                  Cardinality({y \in called : y < x}) = i - 1
                      stops_ == [i \in 1..Cardinality(called) |->
                                   Op("stop", nth(i))]
                  IN /\ acpClient' = [x \in Sessions |->
                                        IF x \in called \ {failed}
                                        THEN "stopped" ELSE acpClient[x]]
                     /\ registry' = IF all THEN {} ELSE registry
                     /\ Commit([q EXCEPT
                                  !.modeCalls[k].pc =
                                     IF all THEN "switched" ELSE "switch_failed",
                                  !.manager.projectPath = IF all THEN path ELSE @,
                                  !.manager.ops = @ \o stops_])

\* sessionManager.resolveInteraction called from /select or an IM card
ResolveCall(s, r, input) ==
  /\ Idle
  /\ CommitResolved(ResolveInteraction(Bundle, s, r, input))
  /\ reply' = ResolveReply(Bundle, s, r, input)
  /\ UNCHANGED << onTaskComplete, stops, timers >>

\* ------------------------------------------------- dispatcher (dispatcher.ts)
\* faulty variant: the shortcut selects against the newest interaction
DispatchNumeric_Newest(s, digits) ==
  /\ Idle
  /\ s \in registry
  /\ Len(pendingInteractions[s]) > 0
  /\ LET requestId == pendingInteractions[s][Len(pendingInteractions[s])]
     IN /\ CommitResolved(ResolveInteraction(Bundle, s, requestId, digits))
        /\ reply' = ResolveReply(Bundle, s, requestId, digits)
  /\ UNCHANGED << onTaskComplete, stops, timers >>

\* dispatch of a purely numeric message while an interaction is pending
DispatchNumeric(s, digits) ==
  /\ Idle
  /\ s \in registry
  /\ Len(pendingInteractions[s]) > 0
  /\ LET requestId == pendingInteractions[s][1]
     IN /\ CommitResolved(ResolveInteraction(Bundle, s, requestId, digits))
        /\ reply' = ResolveReply(Bundle, s, requestId, digits)
  /\ UNCHANGED << onTaskComplete, stops, timers >>

\* handlePrompt after getOrCreateSession returned session s, up to its await
DispatchPrompt(s, text, limit) ==
  /\ Idle
  /\ NextCall <= limit
  /\ s \in registry /\ acpClient[s] # "none"
  /\ LET c == NextCall
         q == [Bundle EXCEPT !.calls[c] =
                 [NewCall(s, "prompt", "dispatch") EXCEPT !.content = text]]
         cancelling == current[s] # NoTask
         unanswered == pendingInteractions[s][1]
         fast == acpClient[s] = "stopped"
         k == NextStop
     IN IF Len(pendingInteractions[s]) = 0
        THEN /\ Commit(AcquireLock(q, s, c))
             /\ UNCHANGED stops
        ELSE IF cancelling
        THEN /\ k <= MaxStops
             /\ stops' = [stops EXCEPT ![k] =
                            [session |-> s, mode |-> "default", caller |-> c,
                             pc |-> IF fast THEN "queued" ELSE "cancelling"]]
             /\ Commit([q EXCEPT !.calls[c].pc = "stopping",
                                 !.calls[c].over = unanswered,
                                 !.mt = IF fast
                                        THEN Append(@, Job("stopresume", k, TRUE, ""))
                                        ELSE @])
        ELSE /\ Commit([q EXCEPT !.calls[c].pc = "stopping",
                                 !.calls[c].over = unanswered,
                                 !.mt = Append(@, Job("hpresume", c, TRUE, ""))])
             /\ UNCHANGED stops
  /\ UNCHANGED << registry, acpClient, onTaskComplete, timers >>
  /\ reply' = NoReply

\* handlePrompt after `await stopTask(...)`: cancel every pending interaction,
\* then enqueue
HpResumeJob ==
  /\ HeadIs("hpresume")
  /\ LET c == Head(microtasks).id
         s == calls[c].session
         q == CancelAll(Popped, s, pendingInteractions[s])
     IN Commit(AcquireLock(q, s, c))
  /\ UNCHANGED << registry, acpClient, onTaskComplete, stops, timers >>
  /\ reply' = NoReply

\* --------------------------------------- selection triggers (session.ts)
\* option list a selection of the given kind offers
SelectionOptions(kind) ==
  CASE kind = "mode" -> AvailableModes
    [] kind = "model" -> AvailableModels
    [] OTHER -> << [optionId |-> "0", name |-> "repo-a"],
                   [optionId |-> "1", name |-> "repo-b"] >>

\* faulty variant: the event is emitted before the check for pending
\* interactions
Trigger_EmitFirst(q, s, k, kind, supported) ==
  LET e == [q EXCEPT !.events = Append(@, Event(s, k))]
  IN IF Len(q.pi[s]) > 0
     THEN [e EXCEPT !.modeCalls[k].pc = "busy"]
     ELSE IF kind # "repo" /\ (acpClient[s] = "none" \/ ~supported)
     THEN [q EXCEPT !.modeCalls[k].pc = "unsupported"]
     ELSE [e EXCEPT !.modeCalls[k].pc = "asking",
                    !.reqs[k] = [session |-> s, task |-> NoTask,
                                 type |-> kind \o "_selection",
                                 options |-> SelectionOptions(kind),
                                 by |-> "none", value |-> ""],
                    !.pi[s] = Append(@, k)]

\* faulty variant: the trigger does not look for pending interactions
Trigger_NoBusyCheck(q, s, k, kind, supported) ==
  IF kind # "repo" /\ (acpClient[s] = "none" \/ ~supported)
  THEN [q EXCEPT !.modeCalls[k].pc = "unsupported"]
  ELSE [q EXCEPT !.modeCalls[k].pc = "asking",
                 !.reqs[k] = [session |-> s, task |-> NoTask,
                              type |-> kind \o "_selection",
                              options |-> SelectionOptions(kind),
                              by |-> "none", value |-> ""],
                 !.pi[s] = Append(@, k),
                 !.events = Append(@, Event(s, k))]

\* triggerModeSelection / triggerModelSelection / createRepoSelection after
\* `await getOrCreateSession`: the busy check, the agent's state, the new
\* entry and its event; no timeout is armed
Trigger(q, s, k, kind, supported) ==
  IF Len(q.pi[s]) > 0
  THEN [q EXCEPT !.modeCalls[k].pc = "busy"]
  ELSE IF kind # "repo" /\ (acpClient[s] = "none" \/ ~supported)
  THEN [q EXCEPT !.modeCalls[k].pc = "unsupported"]
  ELSE [q EXCEPT !.modeCalls[k].pc = "asking",
                 !.reqs[k] = [session |-> s, task |-> NoTask,
                              type |-> kind \o "_selection",
                              options |-> SelectionOptions(kind),
                              by |-> "none", value |-> ""],
                 !.pi[s] = Append(@, k),
                 !.events = Append(@, Event(s, k))]

\* another trigger for session s is between its call and its busy check
Overlapping(s) ==
  \E j \in SelIds : modeCalls[j].session = s /\ modeCalls[j].pc = "entered"

\* a selection trigger is called and reaches `await getOrCreateSession`
TriggerStart(s, kind) ==
  /\ NextSel <= MaxReqs + MaxSels
  /\ s \in registry /\ acpClient[s] # "none"
  /\ LET k == NextSel
     IN Commit([Bundle EXCEPT
                  !.modeCalls[k] = [session |-> s, kind |-> kind,
                                    via |-> "trigger", pc |-> "entered",
                                    target |-> "", overlap |-> Overlapping(s)],
                  !.mt = Append(@, Job("trigger", k, TRUE, ""))])
  /\ UNCHANGED << registry, acpClient, onTaskComplete, stops, timers >>
  /\ reply' = NoReply

\* the trigger goes on after its await
TriggerJob ==
  /\ HeadIs("trigger")
  /\ LET k == Head(microtasks).id
     IN \E supported \in BOOLEAN :
          Commit(Trigger(Popped, modeCalls[k].session, k, modeCalls[k].kind,
                         supported))
  /\ UNCHANGED << registry, acpClient, onTaskComplete, stops, timers >>
  /\ reply' = NoReply

\* setMode / setModel of call k returns; the continuation of a selection
\* stores the chosen id and settles the trigger with the result
SetReturn(k, ok) ==
  /\ Idle
  /\ modeCalls[k].pc = "setting"
  /\ LET s == modeCalls[k].session
         chosen == modeCalls[k].target
         byTrigger == modeCalls[k].via = "trigger"
         q == [Bundle EXCEPT !.modeCalls[k].pc =
                               IF ok THEN "set_ok" ELSE "set_fail"]
     IN Commit(IF byTrigger /\ modeCalls[k].kind = "mode"
               THEN [q EXCEPT !.currentModeId[s] = chosen]
               ELSE IF byTrigger /\ modeCalls[k].kind = "model"
               THEN [q EXCEPT !.currentModelId[s] = chosen]
               ELSE q)
  /\ UNCHANGED << registry, acpClient, onTaskComplete, stops, timers >>
  /\ reply' = NoReply

\* ------------------------------------------------- dispatcher (dispatcher.ts)
StartsWith(str, prefix) ==
  Len(str) >= Len(prefix) /\ SubSeq(str, 1, Len(prefix)) = prefix

\* parseCommand(text).type
CommandType(text) ==
  CASE StartsWith(text, "/repo") -> "repo"
    [] StartsWith(text, "/current") -> "current"
    [] StartsWith(text, "/stop") -> "stop"
    [] StartsWith(text, "/reset") -> "reset"
    [] StartsWith(text, "/model") -> "model"
    [] StartsWith(text, "/mode") -> "mode"
    [] StartsWith(text, "/help") -> "help"
    [] StartsWith(text, "/select") -> "select"
    [] OTHER -> "prompt"

\* command.args[0]: trimmed.split(' ').slice(1)[0], "" when there is none
FirstArg(text) ==
  LET blanks == {i \in 1..Len(text) : CharAt(text, i) = " "}
      first == MinOf(blanks)
      later == {i \in blanks : i > first}
      stop == IF later = {} THEN Len(text) + 1 ELSE MinOf(later)
  IN IF blanks = {} THEN "" ELSE SubSeq(text, first + 1, stop - 1)

\* what dispatch returns for a mode / model command: the Busy failure at
\* once, or the still pending promise of handleMode / handleModel
CommandReply(kind) == [NoReply EXCEPT !.op = "command", !.kind = kind]

\* faulty variant: the command switch runs without the override before it
ModeCommand_NoOverride(s, kind, arg) ==
  /\ NextSel <= MaxReqs + MaxSels
  /\ LET k == NextSel
         call == [session |-> s, kind |-> kind, via |-> "command",
                  pc |-> "setting", target |-> arg, overlap |-> FALSE]
         entered == [call EXCEPT !.via = "trigger", !.pc = "entered",
                                 !.target = ""]
     IN IF arg # ""
        THEN Commit([Bundle EXCEPT !.modeCalls[k] = call])
        ELSE \E supported \in BOOLEAN :
               Commit(Trigger([Bundle EXCEPT !.modeCalls[k] = entered],
                              s, k, kind, supported))
  /\ reply' = CommandReply("Pending")
  /\ UNCHANGED << registry, acpClient, onTaskComplete, stops, timers >>

\* dispatch of a mode / model command: the override of dispatch, then
\* handleMode / handleModel (setMode / setModel at once when an argument is
\* given, the selection trigger otherwise)
ModeCommand(s, kind, arg) ==
  /\ IF Len(pendingInteractions[s]) > 0
     THEN /\ Commit(Bundle)
          /\ reply' = CommandReply("Busy")
     ELSE /\ NextSel <= MaxReqs + MaxSels
          /\ LET k == NextSel
                 call == [session |-> s, kind |-> kind, via |-> "command",
                          pc |-> "setting", target |-> arg,
                          overlap |-> FALSE]
                 entered == [call EXCEPT !.via = "trigger", !.pc = "entered",
                                         !.target = ""]
             IN IF arg # ""
                THEN Commit([Bundle EXCEPT !.modeCalls[k] = call])
                ELSE \E supported \in BOOLEAN :
                       Commit(Trigger([Bundle EXCEPT !.modeCalls[k] = entered],
                                      s, k, kind, supported))
          /\ reply' = CommandReply("Pending")
  /\ UNCHANGED << registry, acpClient, onTaskComplete, stops, timers >>

\* messages a user sends: a valid index, a number out of range, mode and
\* model commands with and without an argument, free text
Messages == {"1", "7", "/mode", "/mode ask", "/model", "/model smart", "fix it"}

\* dispatch(message) for session s: the override for sessions with pending
\* interactions, then the command switch
Dispatch(s, text, limit) ==
  /\ Idle
  /\ s \in registry /\ acpClient[s] # "none"
  /\ IF Len(pendingInteractions[s]) > 0 /\ IsNumeric(text)
     THEN DispatchNumeric(s, text)
     ELSE IF CommandType(text) \in {"mode", "model"}
     THEN ModeCommand(s, CommandType(text), FirstArg(text))
     ELSE CommandType(text) = "prompt" /\ DispatchPrompt(s, text, limit)

\* ------------------------------------------------------------ specifications
Types == {"prompt", "command"}

\* the session the single-session specifications drive; the other one stays
\* in its initial state
Solo == {1}

InitSolo == Init /\ acpClient[2] = "ready"

\* enqueue gate and task execution, without stop commands
LockStep ==
  \/ AcqJob
  \/ CritJob
  \/ SentJob
  \/ CbDoneJob
  \/ ResetDoneJob
  \/ \E s \in Solo, type \in Types : EnqueueStart(s, type, MaxCalls)
  \/ \E t \in CallIds, ok \in BOOLEAN : AgentReturn(t, ok)
  \/ \E t \in CallIds : CallbackReturn(t)
  \/ \E s \in Solo : ResetSession(s)

SpecLock == InitSolo /\ [][LockStep]_vars

\* the task queue with stop commands
QueueStep ==
  \/ AcqJob
  \/ CritJob
  \/ SentJob
  \/ CbDoneJob
  \/ StopResumeJob
  \/ ResetDoneJob
  \/ \E s \in Solo, type \in Types : EnqueueStart(s, type, MaxCalls)
  \/ \E t \in CallIds, ok \in BOOLEAN : AgentReturn(t, ok)
  \/ \E t \in CallIds : CallbackReturn(t)
  \/ \E s \in Solo, mode \in {"all", "default"} : StopTaskCancel(s, mode)
  \/ \E k \in StopIds : CancelReturn(k)
  \/ \E s \in Solo, mode \in {"all", "default"} : StopTaskIdle(s, mode)
  \/ \E s \in Solo, taskId \in CallIds : StopTaskId(s, taskId)
  \/ \E s \in Solo : StopTaskNoSession(s)
  \/ \E s \in Solo : ResetSession(s)

SpecQueue == InitSolo /\ [][QueueStep]_vars

\* prompts through the dispatcher, permission requests and their resolution
InteractStep ==
  \/ CritJob
  \/ SentJob
  \/ CbDoneJob
  \/ StopResumeJob
  \/ ResetDoneJob
  \/ HpResumeJob
  \/ \E s \in Solo : DispatchPrompt(s, "new instruction", MaxPrompts)
  \/ \E t \in CallIds, ok \in BOOLEAN : AgentReturn(t, ok)
  \/ \E t \in CallIds : CallbackReturn(t)
  \/ \E k \in StopIds : CancelReturn(k)
  \/ \E t \in CallIds, options \in OptionLists : RequestPermission(t, options)
  \/ \E r \in ReqIds : TimerFire(r)
  \/ \E s \in Solo, r \in ReqIds, input \in SelectInputs : ResolveCall(s, r, input)
  \/ \E s \in Solo, digits \in Digits : DispatchNumeric(s, digits)
  \/ \E s \in Solo : ResetSession(s)

\* the engine was constructed with a completion callback
InitInteract == InitSolo /\ onTaskComplete = TRUE

SpecInteract == InitInteract /\ [][InteractStep]_vars

\* permission requests, their timeout and their resolution; prompts arrive
\* one message at a time and the engine runs without a completion callback
PermitStep ==
  \/ CritJob
  \/ SentJob
  \/ ResetDoneJob
  \/ \E s \in Solo : Idle /\ EnqueueStart(s, "prompt", MaxAsks)
  \/ \E t \in CallIds, ok \in BOOLEAN : AgentReturn(t, ok)
  \/ \E t \in CallIds, options \in OptionLists : RequestPermission(t, options)
  \/ \E r \in ReqIds : TimerFire(r)
  \/ \E s \in Solo, r \in ReqIds, input \in Inputs : ResolveCall(s, r, input)
  \/ \E s \in Solo, digits \in Digits : DispatchNumeric(s, digits)
  \/ \E s \in Solo : ResetSession(s)

InitPermit == InitSolo /\ acpClient[1] = "ready" /\ onTaskComplete = FALSE

SpecPermit == InitPermit /\ [][PermitStep]_vars

\* the event loop keeps running: queued continuations run, armed timers fire
\* and the agent answers every request it was sent
PermitFairness ==
  /\ WF_vars(CritJob \/ SentJob)
  /\ \A r \in ReqIds : WF_vars(TimerFire(r))
  /\ \A t \in CallIds : WF_vars(AgentReturn(t, TRUE))

\* one live session whose requests are left to their timeout or answered
TimeoutStep ==
  \/ CritJob
  \/ SentJob
  \/ \E s \in Solo : Idle /\ EnqueueStart(s, "prompt", MaxAsks)
  \/ \E t \in CallIds, ok \in BOOLEAN : AgentReturn(t, ok)
  \/ \E t \in CallIds, options \in OptionLists : RequestPermission(t, options)
  \/ \E r \in ReqIds : TimerFire(r)
  \/ \E s \in Solo, r \in ReqIds, input \in SelectInputs : ResolveCall(s, r, input)

FairPermit == InitPermit /\ [][TimeoutStep]_vars /\ PermitFairness

\* the permission handler and resolveInteraction over the agent's option
\* lists while a prompt is being sent: any list, any input, a known or an
\* unknown session
SelectStep ==
  \/ CritJob
  \/ \E s \in Solo : Idle /\ EnqueueStart(s, "prompt", MaxAsks)
  \/ \E t \in CallIds, options \in AgentOptionLists : RequestPermission(t, options)
  \/ \E r \in ReqIds : TimerFire(r)
  \/ \E s \in Solo \cup {NoSession}, r \in ReqIds, input \in AgentInputs :
       ResolveCall(s, r, input)

SpecSelect == InitPermit /\ [][SelectStep]_vars

\* the dispatcher against a session whose agent may ask for permission:
\* digits, mode and model commands and free text, each with and without
\* pending interactions
CommandStep ==
  \/ CritJob
  \/ HpResumeJob
  \/ \E s \in Solo, text \in Messages : Dispatch(s, text, MaxAsks)
  \/ \E t \in CallIds : RequestPermission(t, PermissionOptions)

SpecCommand == InitPermit /\ [][CommandStep]_vars

\* enqueue calls arriving at any moment on one session, and the agent's
\* answers
GateStep ==
  \/ AcqJob
  \/ CritJob
  \/ SentJob
  \/ \E s \in Solo, type \in Types : EnqueueStart(s, type, MaxCalls)
  \/ \E t \in CallIds, ok \in BOOLEAN : AgentReturn(t, ok)

\* the event loop runs every queued continuation
GateFairness == WF_vars(AcqJob \/ CritJob \/ SentJob)

FairGate == InitPermit /\ [][GateStep]_vars /\ GateFairness

\* a session with a handle and a completion callback works through its
\* prompts; the agent may ask for permission once per request id
DrainStep ==
  \/ CritJob
  \/ SentJob
  \/ CbDoneJob
  \/ \E s \in Solo : Idle /\ EnqueueStart(s, "prompt", MaxPrompts)
  \/ \E t \in CallIds, ok \in BOOLEAN : AgentReturn(t, ok)
  \/ \E t \in CallIds : CallbackReturn(t)
  \/ \E t \in CallIds : RequestPermission(t, PermissionOptions)
  \/ \E r \in ReqIds : TimerFire(r)
  \/ \E s \in Solo, r \in ReqIds : ResolveCall(s, r, "0")

InitDrain == InitInteract /\ acpClient[1] = "ready"

\* queued continuations run, the agent answers or fails every call, every
\* callback settles and every armed timer fires
DrainFairness ==
  /\ WF_vars(CritJob \/ SentJob \/ CbDoneJob)
  /\ \A t \in CallIds : WF_vars(\E ok \in BOOLEAN : AgentReturn(t, ok))
  /\ \A t \in CallIds : WF_vars(CallbackReturn(t))
  /\ \A r \in ReqIds : WF_vars(TimerFire(r))

FairDrain == InitDrain /\ [][DrainStep]_vars /\ DrainFairness

\* the stop command in all its forms, on a session that runs prompts and may
\* be reset
StopStep ==
  \/ CritJob
  \/ SentJob
  \/ StopResumeJob
  \/ ResetDoneJob
  \/ \E s \in Solo : Idle /\ EnqueueStart(s, "prompt", MaxCalls)
  \/ \E t \in CallIds, ok \in BOOLEAN : AgentReturn(t, ok)
  \/ \E s \in Solo, mode \in {"all", "default"} : StopTaskCancel(s, mode)
  \/ \E k \in StopIds : CancelReturn(k)
  \/ \E s \in Solo, mode \in {"all", "default"} : StopTaskIdle(s, mode)
  \/ \E s \in Solo, taskId \in CallIds : StopTaskId(s, taskId)
  \/ \E s \in Solo : StopTaskNoSession(s)
  \/ \E s \in Solo : ResetSession(s)

SpecStop == InitPermit /\ [][StopStep]_vars

\* some session other than s has a task running or an interaction pending
Beside(s) ==
  \E x \in Sessions \ {s} : current[x] # NoTask \/ pendingInteractions[x] # << >>

\* two sessions side by side: prompts, their completion, permission requests
\* with their timeouts and answers, repo selections, and stop and reset
\* commands issued for one session while another has work in hand
IsolateStep ==
  \/ CritJob
  \/ SentJob
  \/ StopResumeJob
  \/ ResetDoneJob
  \/ TriggerJob
  \/ \E s \in Sessions : Idle /\ EnqueueStart(s, "prompt", MaxPrompts)
  \/ \E t \in CallIds, ok \in BOOLEAN : AgentReturn(t, ok)
  \/ \E t \in CallIds : RequestPermission(t, PermissionOptions)
  \/ \E r \in ReqIds : TimerFire(r)
  \/ \E s \in Sessions, r \in InteractionIds :
       (\E x \in Sessions : InSeq(r, pendingInteractions[x]))
         /\ ResolveCall(s, r, "1")
  \/ \E s \in Sessions : Beside(s) /\ StopTaskCancel(s, "all")
  \/ \E k \in StopIds : CancelReturn(k)
  \/ \E s \in Sessions : Beside(s) /\ StopTaskIdle(s, "all")
  \/ \E s \in Sessions : Beside(s) /\ ResetSession(s)
  \/ \E s \in Sessions :
       Idle /\ NextSel <= MaxReqs + MaxAsks /\ TriggerStart(s, "repo")

SpecIsolate == InitPermit /\ [][IsolateStep]_vars

\* session keys: getOrCreateSession for any user and context, under either
\* project path
KeyStep ==
  \/ \E u \in 1..Len(Users), c \in ContextIds : GetOrCreateSession(Users[u], c)
  \/ \E g \in GetIds, ok \in BOOLEAN : StartAgentReturn(g, ok)
  \/ \E p \in 1..Len(ProjectPaths) : SetCurrentRepo(ProjectPaths[p])

SpecKey == InitManager /\ [][KeyStep]_vars

\* creation and reset of sessions; starting and stopping a handle may fail
RegistryStep ==
  \/ ResetKeyJob
  \/ \E c \in ContextIds : GetOrCreateSession(Users[1], c)
  \/ \E g \in GetIds, ok \in BOOLEAN : StartAgentReturn(g, ok)
  \/ \E c \in ContextIds, ok \in BOOLEAN : ResetSessionKey(Users[1], c, ok)

SpecRegistry == InitManager /\ [][RegistryStep]_vars

\* resetAllSessions against sessions being created
ResetAllStep ==
  \/ \E ok \in BOOLEAN : ResetAllJob(ok)
  \/ \E c \in ContextIds : GetOrCreateSession(Users[1], c)
  \/ \E g \in GetIds, ok \in BOOLEAN : StartAgentReturn(g, ok)
  \/ \E ok \in BOOLEAN : ResetAllSessions(ok)

SpecResetAll == InitManager /\ [][ResetAllStep]_vars

\* the selection triggers, called one after another or several at once, the
\* answers to their selections and the permission requests of a prompt
TriggerStep ==
  \/ CritJob
  \/ TriggerJob
  \/ \E s \in Solo : Idle /\ EnqueueStart(s, "prompt", MaxAsks)
  \/ \E s \in Solo, kind \in {"mode", "model", "repo"} : TriggerStart(s, kind)
  \/ \E s \in Solo, r \in SelIds, input \in SelectInputs :
       ResolveCall(s, r, input)
  \/ \E k \in SelIds, ok \in BOOLEAN : SetReturn(k, ok)
  \/ \E t \in CallIds : RequestPermission(t, PermissionOptions)

SpecTrigger == InitPermit /\ [][TriggerStep]_vars

\* the same with the timeouts, every continuation and every call to the agent
\* bound to go on, every armed timeout bound to fire; nobody is bound to
\* answer
TimedTriggerStep == TriggerStep \/ \E r \in InteractionIds : TimerFire(r)

FairTrigger ==
  /\ InitPermit /\ [][TimedTriggerStep]_vars
  /\ WF_vars(CritJob \/ TriggerJob)
  /\ \A r \in InteractionIds : WF_vars(TimerFire(r))
  /\ \A k \in SelIds : WF_vars(\E ok \in BOOLEAN : SetReturn(k, ok))

\* ------------------------------------------------------------------ claims
SessionOf(t) == calls[t].session

\* tasks of session s whose sendPrompt / sendCommand call has not returned
InFlight(s) ==
  {t \in CallIds : SessionOf(t) = s /\ tasks[t].st \in {"sending", "blocked"}}

Count(seq, t) == Cardinality({i \in 1..Len(seq) : seq[i].task = t})

\* C1: at most one task of a session is being executed by the agent handle at
\* any time; no send starts while another send of the session is in flight
C1_SingleWriter == \A s \in Sessions : Cardinality(InFlight(s)) <= 1

\* C2: tasks of a session start in the order their enqueue calls were
\* admitted; no task has started while an earlier admitted one waits in pending
C2_Fifo ==
  \A s \in Sessions :
    \A i \in 1..Len(pending[s]), j \in 1..Len(started[s]) :
      calls[pending[s][i]].adm > calls[started[s][j]].adm

\* C4: isProcessing is true exactly when current is non-null, and pending
\* never contains the current task
C4_QueueInvariant ==
  \A s \in Sessions :
    /\ isProcessing[s] <=> current[s] # NoTask
    /\ ~InSeq(current[s], pending[s])

\* C6: a task that reaches execution on a session without an agent handle is
\* failed with a success=false result to the completion callback, and the queue
\* is not left stuck on it
C6_NoHandleAdvances ==
  \A t \in CallIds :
    tasks[t].outcome = "nohandle" /\ tasks[t].st = "done"
      => /\ onTaskComplete =>
              \E i \in 1..Len(completions[SessionOf(t)]) :
                /\ completions[SessionOf(t)][i].task = t
                /\ ~completions[SessionOf(t)][i].success
         /\ current[SessionOf(t)] # t

\* C7: the completion callback is invoked exactly once per executed task,
\* whether or not the callback itself fails, in execution order
C7_ExactlyOnce ==
  onTaskComplete =>
    \A s \in Sessions :
      /\ \A t \in CallIds :
           /\ Count(completions[s], t) <= 1
           /\ SessionOf(t) = s /\ tasks[t].st = "done"
                => Count(completions[s], t) = 1
      /\ Len(completions[s]) <= Len(started[s])
      /\ \A i \in 1..Len(completions[s]) : completions[s][i].task = started[s][i]

\* enqueue calls made on session s so far
Batch(s) == {c \in CallIds : SessionOf(c) = s /\ calls[c].pc # "unused"}

\* the calls acknowledged as executing immediately
Immediate(s) == {c \in Batch(s) : calls[c].ack = 0}

\* every call on s was made before any of them passed the gate, and all of
\* them have been acknowledged
ConcurrentBatchDone(s) ==
  /\ Batch(s) # {}
  /\ \A c \in Batch(s) : calls[c].conc /\ calls[c].pc = "done"

\* one immediate call, the others queued at 1..N-1 in submission order
OneImmediateRestRanked(s) ==
  /\ Cardinality(Immediate(s)) = 1
  /\ \A c \in Batch(s) \ Immediate(s) :
       calls[c].ack = Cardinality({d \in Batch(s) \ Immediate(s) : d <= c})

C5_SendFailure ==
  \A t \in CallIds :
    tasks[t].outcome = "err" =>
      LET s == SessionOf(t)
          cs == completions[s]
      IN /\ onTaskComplete /\ tasks[t].st \in {"cb", "cbq", "done"}
              => /\ \E i \in 1..Len(cs) : cs[i].task = t /\ ~cs[i].success
                 /\ \A i \in 1..Len(cs) : cs[i].task = t => ~cs[i].success
         /\ tasks[t].st = "done"
              => /\ advanced[t] = 1
                 /\ current[s] # t
                 /\ \A u \in Batch(s) :
                      calls[u].pc = "done" /\ calls[u].adm = calls[t].adm + 1
                        => InSeq(u, started[s])

\* a failed task has been reported and retired, and the task that waited
\* behind it is now current
C5_Witness ==
  \E t \in CallIds, u \in CallIds :
    /\ onTaskComplete
    /\ tasks[t].outcome = "err" /\ tasks[t].st = "done"
    /\ SessionOf(u) = SessionOf(t)
    /\ calls[u].ack > 0 /\ calls[u].adm = calls[t].adm + 1
    /\ current[SessionOf(t)] = u

\* request r is an entry of its session's pendingInteractions
IsPending(r) ==
  reqs[r].session # NoSession /\ InSeq(r, pendingInteractions[reqs[r].session])

NotFoundKinds == {"NotFound", "SessionNotFound"}

\* C8: once an interaction has been resolved, a later resolveInteraction with
\* the same request id fails as not found and invokes no continuation
C8_SecondResolveFails ==
  reply.op = "resolve" /\ reply.pre
    => reply.kind \in NotFoundKinds /\ ~reply.invoked

\* a request resolved by the user is resolved again
C8_Witness ==
  /\ reply.op = "resolve" /\ reply.pre
  /\ reqs[reply.req].by = "explicit"
  /\ reply.kind = "NotFound"

\* C9: the continuation of a pending interaction is invoked at most once, and
\* the entry leaves pendingInteractions in the very step that invokes it
C9_SingleFire ==
  \A r \in ReqIds :
    /\ fired[r] <= 1
    /\ reqs[r].session # NoSession => (fired[r] = 1 <=> ~IsPending(r))

\* a request resolved by the user whose timeout is still armed
C9_Witness ==
  \E r \in ReqIds : fired[r] = 1 /\ reqs[r].by = "explicit" /\ r \in timers

\* the step in which the timeout resolves request r: the continuation gets the
\* fallback option and the blocked send goes on with it
TimeoutStepOk(r) ==
  fired[r] = 0 /\ fired'[r] = 1 /\ reqs'[r].by = "timeout"
    => /\ IsPending(r) /\ ~IsPending(r)'
       /\ reqs'[r].value = FallbackOption(reqs[r].options)
       /\ tasks[reqs[r].task].st = "blocked"
       /\ tasks'[reqs[r].task].st = "sending"
       /\ tasks'[reqs[r].task].answers =
            Append(tasks[reqs[r].task].answers, reqs'[r].value)

\* C10: a pending permission request is eventually removed, by the timeout
\* with the fallback option if nobody resolves it; its task then runs to
\* completion with that option, and resolving the request after the timeout
\* fails as not found
C10_TimeoutResolves ==
  /\ \A r \in ReqIds : IsPending(r) ~> ~IsPending(r)
  /\ \A t \in 1..MaxAsks : (tasks[t].st = "blocked") ~> (tasks[t].st = "done")
  /\ [][\A r \in ReqIds : TimeoutStepOk(r)]_vars
  /\ [](\A r \in ReqIds :
          reqs[r].by = "timeout" /\ tasks[reqs[r].task].st = "done"
            => InSeq(reqs[r].value, tasks[reqs[r].task].answers))
  /\ [](reply.op = "resolve" /\ reqs[reply.req].by = "timeout"
          => reply.kind \in NotFoundKinds /\ ~reply.invoked)

\* a request resolved by its timeout, its task complete, then resolved by hand
C10_Witness ==
  /\ reply.op = "resolve" /\ reply.kind = "NotFound"
  /\ reqs[reply.req].by = "timeout"
  /\ reqs[reply.req].value = "deny"
  /\ tasks[reqs[reply.req].task].st = "done"


\* labels of the option lists above that match "deny" or "cancel" when case
\* is ignored
DenyLabels == {"Deny", "DENY", "Cancel", "Cancel run"}

\* the value the timeout is expected to deliver for an option list
ExpectedFallback(options) ==
  LET matching == {i \in 1..Len(options) : options[i].name \in DenyLabels}
  IN IF matching # {}
     THEN options[CHOOSE i \in matching : \A j \in matching : i <= j].optionId
     ELSE IF options # << >> THEN options[1].optionId ELSE "deny"

\* request r is auto-resolved by its timeout in this step
TimesOut(r) == reqs[r].by = "none" /\ reqs'[r].by = "timeout"

Decimal == << "0", "1", "2", "3" >>

\* this step is a resolveInteraction call that found request r pending
Attempt(r) ==
  /\ reply'.op = "resolve" /\ reply'.req = r
  /\ reply'.kind \notin NotFoundKinds

\* the call succeeds and the continuation of r is invoked with id
Delivered(r, id) ==
  /\ reply'.kind = "Ok" /\ reply'.final = id
  /\ fired'[r] = fired[r] + 1
  /\ reqs'[r].value = id /\ reqs'[r].by = "explicit"

\* an input that is the decimal form of a position selects that position
ByIndex(r) ==
  \A i \in 1..Len(reqs[r].options) :
    reply'.input = Decimal[i] => Delivered(r, reqs[r].options[i].optionId)

\* C12 as stated: on a pending interaction an input equal to an option id
\* delivers exactly that id, and the decimal form of a zero-based index i
\* delivers the id of the option at position i.
C12_Original ==
  [][\A r \in ReqIds :
       Attempt(r) =>
         /\ reply'.input \in OptionIds(reqs[r].options)
              => Delivered(r, reply'.input)
         /\ ByIndex(r)]_vars

\* C12: on a pending interaction the index is tried first: the decimal form
\* of a zero-based index i delivers the id of the option at position i, also
\* when the input is itself the id of another option; an input equal to an
\* option id from which parseInt reads no valid index delivers that id.
C12_IndexThenId ==
  [][\A r \in ReqIds :
       Attempt(r) =>
         LET options == reqs[r].options
             index == ParseInt(reply'.input)
         IN /\ ByIndex(r)
            /\ ( /\ reply'.input \in OptionIds(options)
                 /\ ~(index >= 0 /\ index < Len(options)) )
                 => Delivered(r, reply'.input)]_vars

\* "1" has been resolved against options with the ids "1", "2": the option at
\* position 1 was delivered, not the option whose id is "1"
C12_Witness ==
  /\ reply.op = "resolve" /\ reply.kind = "Ok"
  /\ reply.input = "1" /\ reply.final = "2"
  /\ reqs[reply.req].value = "2"


\* everything but the value returned to the caller
SessionState ==
  << registry, acpClient, onTaskComplete, pending, current, isProcessing,
     sessionLocks, lockWaiters, calls, tasks, microtasks, completions,
     started, advanced, stops, pendingInteractions, reqs, fired, timers,
     modeCalls, currentModeId, currentModelId, events, manager >>

\* the input names an option of r: it is an option id or the decimal form of
\* a position of the list
NamesOption(r, input) ==
  \/ input \in OptionIds(reqs[r].options)
  \/ \E i \in 1..Len(reqs[r].options) : input = Decimal[i]

\* C13: a resolveInteraction call fails with NotFound when the session or the
\* request is unknown and with InvalidOption whenever the input is neither an
\* option id nor a valid zero-based index; a failing call invokes no
\* continuation, leaves the interaction pending and changes no other state.
C13_FailureChangesNothing ==
  [][reply'.op = "resolve" =>
       LET r == reply'.req
       IN /\ ~IsPending(r) => reply'.kind \in NotFoundKinds
          /\ (Attempt(r) /\ ~NamesOption(r, reply'.input))
               => reply'.kind = "InvalidOption"
          /\ reply'.kind # "Ok" => UNCHANGED SessionState]_vars


\* handlePrompt call c passes from its cancel loop to enqueue in this step
EnqueuesAfterCancel(c) == calls[c].pc = "stopping" /\ calls'[c].pc # "stopping"

\* C14: when a free-text prompt is dispatched for a session with pending
\* interactions, each of them is resolved with the cancel sentinel and
\* removed, so none is left when the new text is enqueued.
C14_ImplicitCancel ==
  [][\A c \in CallIds :
       EnqueuesAfterCancel(c) =>
         /\ pendingInteractions'[SessionOf(c)] = << >>
         /\ \A r \in ReqIds :
              (IsPending(r) /\ reqs[r].session = SessionOf(c))
                => reqs'[r].value = "cancel" /\ fired'[r] = fired[r] + 1]_vars


\* the task whose interaction call c found pending (NoTask if there was none)
Unanswered(c) ==
  IF calls[c].over = NoReq THEN NoTask ELSE reqs[calls[c].over].task

\* handlePrompt calls that found an interaction of an unanswered task pending
Superseding == {c \in CallIds : Unanswered(c) # NoTask}

\* C15 (first half): the prompt that supersedes an unanswered one is
\* acknowledged as immediate, never queued behind the superseded task.
C15_Immediate ==
  \A c \in Superseding : calls[c].pc = "done" => calls[c].ack = 0

\* C15: after implicit cancellation the new prompt is started at once, and
\* from then on the completion callback of the session is never given the
\* result of the superseded task.
C15_Supersedes ==
  [][\A c \in Superseding :
       calls[c].pc = "done" =>
         /\ calls[c].ack = 0
         /\ Count(completions'[SessionOf(c)], Unanswered(c))
              = Count(completions[SessionOf(c)], Unanswered(c))]_vars

\* prompts that became a call of enqueue in this step
Enqueued == {c \in CallIds : calls[c].pc = "unused" /\ calls'[c].pc # "unused"}

\* C16: while a session has a pending interaction a purely numeric message
\* is a select against the oldest pending interaction of the session, and,
\* whatever that select returns, the message is not enqueued as a task.
C16_NumericShortcut ==
  [][/\ \A c \in Enqueued :
          Len(pendingInteractions[calls'[c].session]) > 0
            => ~IsNumeric(calls'[c].content)
     /\ reply'.op = "resolve" =>
          LET s == reqs[reply'.req].session
          IN /\ IsNumeric(reply'.input)
             /\ Len(pendingInteractions[s]) > 0
             /\ reply'.req = pendingInteractions[s][1]
             /\ Enqueued = {}
             /\ UNCHANGED << pending, current, isProcessing >>]_vars

\* a digit has resolved the selection that was asked first while the
\* permission request that came after it is still pending
C16_Witness ==
  /\ reply.op = "resolve" /\ reply.kind = "Ok"
  /\ reply.req \in SelIds
  /\ \E r \in ReqIds : IsPending(r) /\ reqs[r].session = reqs[reply.req].session

\* sessions with at least one pending interaction
BusySessions == {s \in Sessions : Len(pendingInteractions[s]) > 0}

\* C17: a mode or model command dispatched while the session has a pending
\* interaction fails as Busy before the command switch: no interaction is
\* created, no permissionRequest is emitted, setMode / setModel is not
\* called, and the pending interactions and the queue stay as they were.
C17_BusyOverride ==
  [][(reply'.op = "command" /\ Solo \subseteq BusySessions) =>
       /\ reply'.kind = "Busy"
       /\ UNCHANGED SessionState]_vars

\* a mode or model command has been refused while a permission request of
\* the running task is pending and no selection was ever started
C17_Witness ==
  /\ reply.op = "command" /\ reply.kind = "Busy"
  /\ \E r \in ReqIds : IsPending(r) /\ reqs[r].type = "permission"
  /\ \A k \in SelIds : modeCalls[k].pc = "unused"

\* triggers that pass their check for pending interactions in this step
Checking ==
  {k \in SelIds : modeCalls[k].pc = "entered" /\ modeCalls'[k].pc # "entered"}

\* C18: a selection trigger that finds a pending interaction in its session
\* fails as Busy, adds nothing to the pending interactions and emits no
\* permissionRequest, also when another trigger of the session was in
\* flight together with it.
C18_TriggerBusy ==
  [][\A k \in Checking :
       Len(pendingInteractions[modeCalls[k].session]) > 0 =>
         /\ modeCalls'[k].pc = "busy"
         /\ UNCHANGED << pendingInteractions, reqs, events >>]_vars

\* of two triggers of one session in flight at once the first asks its
\* question and the second has failed as Busy
C18_Witness ==
  \E j, k \in SelIds :
    /\ j # k /\ modeCalls[j].session = modeCalls[k].session
    /\ modeCalls[k].overlap /\ modeCalls[k].pc = "busy"
    /\ modeCalls[j].pc = "asking" /\ IsPending(j)
    /\ Len(pendingInteractions[modeCalls[k].session]) = 1

\* mode and model selections waiting for an answer
OpenSelection(k) ==
  IsPending(k) /\ reqs[k].type \in {"mode_selection", "model_selection"}

\* C19: a mode or model selection that nobody answers is eventually
\* resolved by the timeout machinery and leaves the pending interactions.
C19_SelectionTimesOut ==
  \A k \in SelIds : OpenSelection(k) ~> ~IsPending(k)

\* calls of setMode / setModel made by a selection that return in this step
Returning ==
  {k \in SelIds : /\ modeCalls[k].via = "trigger"
                  /\ modeCalls[k].pc = "setting"
                  /\ modeCalls'[k].pc \in {"set_ok", "set_fail"}}

\* the current mode (model) id kept by the session of selection k
CurrentId(k) ==
  IF modeCalls[k].kind = "mode" THEN currentModeId[modeCalls[k].session]
                                ELSE currentModelId[modeCalls[k].session]

\* C20 (first half): resolving a mode (model) selection calls setMode
\* (setModel) on the agent of the session with the id that was chosen.
C20_CallsWithChosen ==
  [][\A k \in SelIds :
       (OpenSelection(k) /\ ~IsPending(k)') =>
         /\ modeCalls'[k].pc = "setting"
         /\ modeCalls'[k].target = reqs'[k].value]_vars

\* C20: the current mode (model) id of the session becomes the chosen id
\* when setMode (setModel) reports success and is left unchanged when it
\* reports failure.
C20_UpdatedOnSuccessOnly ==
  [][\A k \in Returning :
       /\ modeCalls'[k].pc = "set_ok" => CurrentId(k)' = modeCalls[k].target
       /\ modeCalls'[k].pc = "set_fail" => CurrentId(k)' = CurrentId(k)]_vars

\* interactions that were stored in the pending interactions of a session
Created == {r \in InteractionIds : reqs[r].session # NoSession}

\* positions of the permissionRequest events that carry request id r
EventsOf(r) == {i \in 1..Len(events) : events[i].requestId = r}

\* C21: every interaction that was created (by the permission callback or
\* by a mode, model or repo trigger) has exactly one permissionRequest
\* event, carrying the id of its session and its request id, and every
\* permissionRequest event carries the id of a created interaction.
C21_OneEventEach ==
  /\ \A r \in Created :
       /\ Cardinality(EventsOf(r)) = 1
       /\ \A i \in EventsOf(r) : events[i].sessionId = reqs[r].session
  /\ \A i \in 1..Len(events) : events[i].requestId \in Created

\* a permission request and a repo selection were both created and
\* announced, and a further trigger has failed as Busy
C21_Witness ==
  /\ \E r \in ReqIds : r \in Created
  /\ \E k \in SelIds : k \in Created /\ reqs[k].type = "repo_selection"
  /\ \E k \in SelIds : modeCalls[k].pc = "busy"
  /\ Len(events) >= 2

\* calls of getOrCreateSession that have returned a session
Returned == {g \in GetIds : manager.gets[g].pc = "returned"}

SameComponents(g, h) ==
  /\ manager.gets[g].userId = manager.gets[h].userId
  /\ manager.gets[g].contextId = manager.gets[h].contextId
  /\ manager.gets[g].projectPath = manager.gets[h].projectPath

\* C22: two calls of getOrCreateSession return the same session exactly
\* when their user id, context id and project path are all equal, and a
\* call without a context id never returns the session of a call with one.
C22_SessionIdentity ==
  \A g, h \in Returned :
    /\ manager.gets[g].session = manager.gets[h].session <=> SameComponents(g, h)
    /\ (manager.gets[g].contextId = << >> /\ manager.gets[h].contextId # << >>)
         => manager.gets[g].session # manager.gets[h].session

\* calls of getOrCreateSession that fail in this step
Failing ==
  {g \in GetIds : manager.gets[g].pc = "starting" /\ manager'.gets[g].pc = "thrown"}

\* C23: when startAgent fails the error reaches the caller and no
\* half-initialized session stays behind: the session the call had created
\* is not registered afterwards.
C23_NoHalfInitialized ==
  [][\A g \in Failing :
       manager.gets[g].created => manager.gets[g].session \notin registry']_vars

\* the handles created for session s whose start() has not failed: one per
\* call of getOrCreateSession that found the session without a handle
HandlesOf(s) ==
  {g \in GetIds : /\ manager.gets[g].session = s
                  /\ manager.gets[g].starts
                  /\ manager.gets[g].pc # "thrown"}

\* C24: a registered session has at most one Agent Handle that was created
\* and started for it, also when several calls of getOrCreateSession for
\* its key are in flight together.
C24_OneHandle ==
  \A s \in registry : Cardinality(HandlesOf(s)) <= 1

\* calls of resetSession that are made, and that return, in this step
Begun ==
  {k \in ResetIds : manager.resets[k].pc = "unused" /\ manager'.resets[k].pc # "unused"}
Ended ==
  {k \in ResetIds : manager.resets[k].pc # "done" /\ manager'.resets[k].pc = "done"}

\* the calls of stop() on the handle of session s among the handle calls ops
StopsIn(ops, s) == {i \in 1..Len(ops) : ops[i] = Op("stop", s)}

Resuming ==
  {k \in ResetIds : /\ manager.resets[k].kind = "one"
                    /\ manager.resets[k].pc = "stopping"
                    /\ manager'.resets[k].pc # "stopping"}

\* C26: whether stop() of the handle fulfils or fails, resetSession returns
\* its result (the error is not passed on to the caller) and the session
\* is removed from the registry.
C26_BestEffortStop ==
  [][\A k \in Resuming :
       /\ manager'.resets[k].pc = "done"
       /\ manager.resets[k].found \notin registry']_vars

\* C27: whenever a call of getOrCreateSession and a resetAllSessions
\* overlap, the session the call returns is still registered or has been
\* stopped and removed: no session is out of the registry with its handle
\* running.
C27_ResetAllAtomic ==
  \A g \in Returned :
    \/ manager.gets[g].session \in registry
    \/ acpClient[manager.gets[g].session] # "ready"

\* ------------------------------------------------------------------ C28
\* the state the claim speaks of: a session's queue and pending interactions
IsolatedState(s) ==
  << pending[s], current[s], isProcessing[s], pendingInteractions[s] >>

\* the session a queued continuation belongs to
OwnerOf(job) ==
  CASE job.kind = "stopresume" -> stops[job.id].session
    [] job.kind = "resetdone" -> job.id
    [] job.kind = "trigger" -> modeCalls[job.id].session
    [] OTHER -> calls[job.id].session

\* the step is an operation performed for session s
StepOf(s) ==
  \/ microtasks # << >> /\ OwnerOf(Head(microtasks)) = s
  \/ /\ Idle
     /\ \/ EnqueueStart(s, "prompt", MaxPrompts)
        \/ \E t \in CallIds, ok \in BOOLEAN :
             calls[t].session = s /\ AgentReturn(t, ok)
        \/ \E t \in CallIds :
             calls[t].session = s /\ RequestPermission(t, PermissionOptions)
        \/ \E r \in ReqIds : reqs[r].session = s /\ TimerFire(r)
        \/ \E r \in InteractionIds : ResolveCall(s, r, "1")
        \/ StopTaskCancel(s, "all")
        \/ \E k \in StopIds : stops[k].session = s /\ CancelReturn(k)
        \/ StopTaskIdle(s, "all")
        \/ ResetSession(s)
        \/ TriggerStart(s, "repo")

\* C28: an operation performed for one session (enqueue, completion and
\* advance, resolveInteraction, stopTask, resetSession, a timeout firing, a
\* repo selection and its answer) leaves pending, current, isProcessing and the
\* pending interactions of every other session unchanged
C28_SessionIsolation ==
  [][\A s \in Sessions :
       StepOf(s) => \A x \in Sessions \ {s} : IsolatedState(x)' = IsolatedState(x)]_vars

\* one session has finished a task and switched the repo while the other
\* still has its task running and a permission request pending
C28_Witness ==
  \E a \in Sessions, b \in Sessions :
    /\ a # b
    /\ current[b] # NoTask /\ pendingInteractions[b] # << >>
    /\ \E t \in CallIds : calls[t].session = a /\ tasks[t].st = "done"
    /\ \E k \in SelIds : modeCalls[k].session = a /\ modeCalls[k].pc = "switched"

\* ------------------------------------------------------------------ C29
\* tasks whose send was rejected and whose finally block has run
Failed(s) ==
  {t \in CallIds : /\ calls[t].session = s
                   /\ tasks[t].outcome = "err"
                   /\ tasks[t].st = "done"}

C30_TimerCleared ==
  \A r \in ReqIds : reqs[r].by = "explicit" => r \notin timers

\* ------------------------------------------------------------------ C31
\* the enqueue calls that return in this step
Acknowledged == {c \in CallIds : calls[c].pc # "done" /\ calls'[c].pc = "done"}

\* C31: a call that makes its task current is acknowledged with an empty
\* message and neither task id nor position; a call that queues its task is
\* acknowledged with the task's id and the length of pending right after the
\* append, counted from 1
C31_Acknowledgement ==
  [][\A c \in Acknowledged :
       LET s == calls[c].session
       IN \/ /\ current'[s] = c
             /\ pending'[s] = pending[s]
             /\ calls'[c].ack = 0 /\ calls'[c].ackTask = NoTask
          \/ /\ current'[s] = current[s]
             /\ pending'[s] = Append(pending[s], c)
             /\ calls'[c].ack = Len(pending'[s]) /\ calls'[c].ack >= 1
             /\ calls'[c].ackTask = c]_vars

\* one call was acknowledged without a position, the next two with the
\* positions 1 and 2
C31_Witness ==
  \E a \in CallIds, b \in CallIds, c \in CallIds :
    /\ calls[a].ack = 0 /\ calls[a].ackTask = NoTask /\ calls[a].pc = "done"
    /\ calls[b].ack = 1 /\ calls[b].ackTask = b
    /\ calls[c].ack = 2 /\ calls[c].ackTask = c
    /\ calls[a].session = calls[b].session /\ calls[b].session = calls[c].session

\* ------------------------------------------------------------------ C32
\* the stop calls that return in this step
Stopped == {k \in StopIds : stops[k].pc # "done" /\ stops'[k].pc = "done"}

Holding(s) == {c \in CallIds : calls[c].session = s /\ calls[c].pc = "crit"}

\* C33: at most one enqueue call of a session is between acquiring the gate
\* and releasing it
C33_GateExclusive ==
  \A s \in Sessions : Cardinality(Holding(s)) <= 1

\* ------------------------------------------------------------------ C34
\* C34: in every state an enqueue call can observe, a session with a task
\* waiting in pending is processing
C34_NeverIdleWhileWaiting ==
  \A s \in Sessions : pending[s] # << >> => isProcessing[s]

\* ------------------------------------------------------------------ C35
\* C35: processNext never runs twice for a task, and it has run once for every
\* task whose processTask has ended, whichever path it took
C35_AdvanceOncePerTask ==
  \A t \in CallIds :
    /\ advanced[t] <= 1
    /\ tasks[t].st = "done" => advanced[t] = 1

\* ------------------------------------------------------------------ C36
\* session s is idle and has delivered one completion result per enqueued task
Drained(s) ==
  /\ pending[s] = << >> /\ current[s] = NoTask /\ ~isProcessing[s]
  /\ Len(completions[s]) = Cardinality(Batch(s))

\* C36: when the agent answers or fails every call and every permission
\* request is resolved, a session with finitely many tasks ends up idle for
\* good, with as many completion results delivered as tasks were enqueued
C36_QueueDrains ==
  \A s \in Solo : <>[]Drained(s)

\* ------------------------------------------------------------------ C37
\* session s has been destroyed: out of the registry with its handle stopped
Destroyed(s) == s \notin registry /\ acpClient[s] = "stopped"

\* the tasks of session s whose processTask calls sendPrompt or sendCommand on
\* the session's handle in this step
SentToHandle(s) ==
  {t \in CallIds : /\ ~InSeq(t, started[s]) /\ InSeq(t, started'[s])
                   /\ tasks'[t].outcome # "nohandle"}

\* C37: once a session has been destroyed, no task of it, waiting or newly
\* enqueued on the old session object, is sent to its handle
C37_NoSendAfterReset ==
  [][\A s \in Sessions : Destroyed(s) => SentToHandle(s) = {}]_vars

\* ------------------------------------------------------------------ C38
\* enqueue call c has been made and has not returned
InProgress(c) == calls[c].pc \notin {"unused", "done"}

\* C38: every enqueue call acquires the gate, returns its acknowledgement and
\* releases the gate, however many calls are under way on the session; when
\* none is in progress the lock table has no entry for the session
C38_GateLive ==
  /\ \A c \in CallIds : InProgress(c) ~> (calls[c].pc = "done" /\ calls[c].ack >= 0)
  /\ [](\A s \in Sessions :
          (\A c \in Batch(s) : ~InProgress(c)) => sessionLocks[s] = NoLock)

\* as many calls as the bound allows were under way together on one session,
\* two of them waiting for the same lock, and all have returned
C38_Witness ==
  \E s \in Sessions :
    /\ Cardinality(Batch(s)) = MaxCalls
    /\ \A c \in Batch(s) : calls[c].pc = "done" /\ calls[c].conc
    /\ sessionLocks[s] = NoLock

\* ------------------------------------------------------------------ C39
\* the tasks whose finally block runs processNext in this step
Advancing == {t \in CallIds : advanced'[t] > advanced[t]}

\* C39: the advance step that follows the completion of task t leaves a
\* current task other than t in place
C39_AdvanceRetiresOwn ==
  [][\A t \in Advancing :
       LET s == SessionOf(t)
       IN current[s] \notin {t, NoTask} => current'[s] = current[s]]_vars

\* ------------------------------------------------------------------ C40
\* seq without its i-th element
Without(seq, i) == SubSeq(seq, 1, i - 1) \o SubSeq(seq, i + 1, Len(seq))

====
